---- MODULE Spec2Model ----
(***************************************************************************)
(* Loop-bound normalisation, affine access functions and the integer       *)
(* linear-system helpers of loki.analyse, as state machines whose actions  *)
(* apply the functions of the source to inputs drawn from bounded sets.    *)
(***************************************************************************)
EXTENDS Integers, Sequences, FiniteSets, TLC

VARIABLES
    matrix0,   \* the matrix as the caller built it, before the call
    matrix,    \* the caller's matrix object (numpy array, mutated in place)
    ref,       \* outcome of row_echelon_form_under_gcd_condition(matrix)
    dims,      \* array_dimensions_expr: the tuple of subscript expressions
    extras,    \* additional_variables
    affine,    \* outcome of construct_affine_array_access_function_...
    program0,  \* the routine body as parsed
    previous,  \* the routine body before the latest normalize_bounds
    program,   \* the routine body (subroutine.body)
    calls,     \* number of calls of normalize_bounds so far
    right_hand_side,  \* the right-hand side passed with the matrix
    drop_zero_rows,   \* the flag passed to yield_one_d_systems
    linalg,    \* outcome of the call of a helper of util_linear_algebra
    operands,  \* [op, x, y]: the arguments of an interval operation
    interval,  \* outcome of the interval operation
    nested,    \* get_nested_loops: its argument and what each call yielded
    frames     \* recursive calls of the row echelon form now on the stack

vars == <<matrix0, matrix, ref, dims, extras, affine,
          program0, previous, program, calls,
          right_hand_side, drop_zero_rows, linalg, operands, interval,
          nested, frames>>

\* the variables of the helpers of util_linear_algebra, of the intervals,
\* of get_nested_loops and of the recursion of the row echelon form
helperVars ==
    <<right_hand_side, drop_zero_rows, linalg, operands, interval, nested,
      frames>>

(***************************************************************************)
(* Integer helpers with the semantics of Python / numpy int64.             *)
(***************************************************************************)
Abs(x) == IF x < 0 THEN -x ELSE x

\* Python's x // y on integers, y # 0: rounds towards minus infinity.
FloorDiv(x, y) ==
    IF y > 0 THEN x \div y ELSE (-x) \div (-y)

\* numpy's x // y on int64: as Python, except that y = 0 gives 0 (a warning).
NpFloorDiv(x, y) == IF y = 0 THEN 0 ELSE FloorDiv(x, y)

\* numpy's x % y on int64 with y >= 0: as Python, except that y = 0 gives 0.
NpMod(x, y) == IF y = 0 THEN 0 ELSE x % y

RECURSIVE Gcd2(_, _)
Gcd2(a, b) == IF b = 0 THEN Abs(a) ELSE Gcd2(b, Abs(a) % Abs(b))

\* math.gcd(*xs): 0 for no arguments, the non-negative gcd otherwise.
RECURSIVE gcd(_)
gcd(xs) == IF xs = <<>> THEN 0 ELSE Gcd2(Head(xs), gcd(Tail(xs)))

(***************************************************************************)
(* Matrices are sequences of rows; a view A[1:, 1:] shares its entries     *)
(* with A, so a callee that writes into the view writes into A.            *)
(***************************************************************************)
NRows(A) == Len(A)
NCols(A) == IF Len(A) = 0 THEN 0 ELSE Len(A[1])

\* A[:, 1:]
DropFirstCol(A) == [i \in 1..Len(A) |-> Tail(A[i])]
\* A[:, :1]
FirstCol(A) == [i \in 1..Len(A) |-> <<A[i][1]>>]
\* numpy.hstack([L, R]) of two matrices with the same number of rows
hstack(L, R) == [i \in 1..Len(L) |-> L[i] \o R[i]]
\* numpy.vstack([T, B])
vstack(T, B) == T \o B

\* A[[i, 0]] = A[[0, i]]: rows 1 and i exchanged
SwapRows(A, i) ==
    [k \in 1..Len(A) |-> IF k = 1 THEN A[i] ELSE IF k = i THEN A[1] ELSE A[k]]

\* A[0] = A[0] // A[0, 0]
DividePivotRow(A) ==
    [A EXCEPT ![1] = [j \in 1..Len(A[1]) |-> NpFloorDiv(A[1][j], A[1][1])]]

\* an elimination step that leaves the rows below the pivot row as they are
Eliminate_Nothing(A) == A

\* A[1:] -= A[0] * A[1:, 0:1]
Eliminate(A) ==
    [k \in 1..Len(A) |->
        IF k = 1 THEN A[1]
        ELSE [j \in 1..Len(A[k]) |-> A[k][j] - A[1][j] * A[k][1]]]

\* the index found by "for i in range(len(A)): if A[i, 0] != 0: break"
FirstNonZeroRow(A) ==
    CHOOSE i \in 1..Len(A) :
        /\ A[i][1] # 0
        /\ \A k \in 1..(i - 1) : A[k][1] = 0

\* all coefficients but the last entry of the row: A[0, :-1]
Coefficients(row) == SubSeq(row, 1, Len(row) - 1)

\* a condition that tests the right-hand side against the first
\* coefficient only
gcd_condition_FirstOnly(A) ==
    NpMod(A[1][Len(A[1])], Abs(A[1][1])) # 0

\* gcd_condition(A): TRUE when it raises NoIntegerSolution
gcd_condition(A) ==
    NpMod(A[1][Len(A[1])], gcd(Coefficients(A[1]))) # 0

\* The outcome of a call: raised (NoIntegerSolution), the returned matrix,
\* and the entries the argument holds when the call ends.
Raised(arg) == [raised |-> TRUE, out |-> <<>>, arg |-> arg]
Returned(out, arg) == [raised |-> FALSE, out |-> out, arg |-> arg]

\* write the view A[:, 1:] back into A
WithTailCols(A, V) == [i \in 1..Len(A) |-> <<A[i][1]>> \o V[i]]
\* write the view A[1:, 1:] back into A
WithLowerBlock(A, V) ==
    [i \in 1..Len(A) |-> IF i = 1 THEN A[1] ELSE <<A[i][1]>> \o V[i - 1]]

RECURSIVE generate_reduced_row_echelon_form(_)
generate_reduced_row_echelon_form(A) ==
    IF NRows(A) = 0 \/ NCols(A) = 0 THEN Returned(A, A)
    ELSE IF \A i \in 1..Len(A) : A[i][1] = 0 THEN
        LET sub == generate_reduced_row_echelon_form(DropFirstCol(A))
            A1  == WithTailCols(A, sub.arg)
        IN  IF sub.raised THEN Raised(A1)
            ELSE Returned(hstack(FirstCol(A1), sub.out), A1)
    ELSE
        LET i  == FirstNonZeroRow(A)
            A1 == IF i > 1 THEN SwapRows(A, i) ELSE A
        IN  IF gcd_condition(A1) THEN Raised(A1)
            ELSE
              LET A2  == Eliminate(DividePivotRow(A1))
                  sub == generate_reduced_row_echelon_form(
                             DropFirstCol(Tail(A2)))
                  A3  == WithLowerBlock(A2, sub.arg)
              IN  IF sub.raised THEN Raised(A3)
                  ELSE Returned(
                         vstack(<<A3[1]>>,
                                hstack(FirstCol(Tail(A3)), sub.out)),
                         A3)

row_echelon_form_under_gcd_condition(A) ==
    generate_reduced_row_echelon_form(A)

(***************************************************************************)
(* Expressions.  A node is a record [t, num, den, name, args]:             *)
(*   "lit"   IntLiteral(num)            "flt"  FloatLiteral(num / den)     *)
(*   "var"   a symbol called name       "sum"  Sum(args)                   *)
(*   "prod"  Product(args)              "quot" Quotient(args[1], args[2])  *)
(*   "range" a RangeIndex (:)           "none" Python's None               *)
(***************************************************************************)
Node(t, num, den, name, args) ==
    [t |-> t, num |-> num, den |-> den, name |-> name, args |-> args]

IntLiteral(v) == Node("lit", v, 1, "", <<>>)
FloatLiteral(n, d) == Node("flt", n, d, "", <<>>)
Var(n) == Node("var", 0, 1, n, <<>>)
Sum(a, b) == Node("sum", 0, 1, "", <<a, b>>)
Product(a, b) == Node("prod", 0, 1, "", <<a, b>>)
Quotient(a, b) == Node("quot", 0, 1, "", <<a, b>>)
RangeIndex == Node("range", 0, 1, "", <<>>)
None == Node("none", 0, 1, "", <<>>)

\* str.lower() on the names the model uses
Lower(n) ==
    CASE n = "I" -> "i"
      [] n = "J" -> "j"
      [] OTHER -> n

SeqToSet(s) == {s[k] : k \in 1..Len(s)}

\* FindVariables().visit(expr): the symbols of an expression
RECURSIVE FindVariables(_)
FindVariables(e) ==
    IF e.t = "var" THEN {e.name}
    ELSE UNION {FindVariables(e.args[k]) : k \in 1..Len(e.args)}

\* the names of an expression from left to right, repetitions included
RECURSIVE NamesInOrder(_)
RECURSIVE NamesInOrderSeq(_)
NamesInOrder(e) ==
    IF e.t = "var" THEN <<e.name>> ELSE NamesInOrderSeq(e.args)
NamesInOrderSeq(es) ==
    IF es = <<>> THEN <<>>
    ELSE NamesInOrder(Head(es)) \o NamesInOrderSeq(Tail(es))

\* simplify(expr): integer literals of a sum or a product are folded; a
\* quotient is kept as a quotient
RECURSIVE simplify(_)
simplify(e) ==
    IF e.t \notin {"sum", "prod", "quot"} THEN e
    ELSE LET a == simplify(e.args[1])
             b == simplify(e.args[2])
         IN  IF e.t # "quot" /\ a.t = "lit" /\ b.t = "lit"
             THEN IntLiteral(IF e.t = "sum" THEN a.num + b.num
                             ELSE a.num * b.num)
             ELSE [e EXCEPT !.args = <<a, b>>]

\* Fortran's integer division: rounds towards zero
TruncDiv(x, y) ==
    IF (x >= 0) = (y > 0) THEN Abs(x) \div Abs(y) ELSE -(Abs(x) \div Abs(y))

\* the integer value of an expression without FloatLiteral, the symbols
\* taking the values of env
RECURSIVE Eval(_, _)
Eval(e, env) ==
    CASE e.t = "lit" -> e.num
      [] e.t = "var" -> env[Lower(e.name)]
      [] e.t = "sum" -> Eval(e.args[1], env) + Eval(e.args[2], env)
      [] e.t = "prod" -> Eval(e.args[1], env) * Eval(e.args[2], env)
      [] e.t = "quot" -> TruncDiv(Eval(e.args[1], env), Eval(e.args[2], env))
      [] OTHER -> 0

(***************************************************************************)
(* Polynomial term maps: base (the factors of a monomial, as exponents of  *)
(* the lower-cased symbols) -> coefficient, an exact rational num / den.   *)
(***************************************************************************)
Rat(n, d) ==
    IF n = 0 THEN [num |-> 0, den |-> 1]
    ELSE LET g == Gcd2(n, d) IN [num |-> n \div g, den |-> d \div g]

RatAdd(a, b) == Rat(a.num * b.den + b.num * a.den, a.den * b.den)
RatMul(a, b) == Rat(a.num * b.num, a.den * b.den)
IsInteger(q) == q.den = 1

Symbols == {"i", "j", "k"}

ConstantBase == [n \in Symbols |-> 0]
BaseOf(name) == [n \in Symbols |-> IF n = Lower(name) THEN 1 ELSE 0]
BaseMul(a, b) == [n \in Symbols |-> a[n] + b[n]]

RECURSIVE SumOverSet(_, _)
SumOverSet(S, f) ==
    IF S = {} THEN 0
    ELSE LET x == CHOOSE x \in S : TRUE
         IN  f[x] + SumOverSet(S \ {x}, f)

\* len(base): the number of factors of the monomial
FactorCount(base) == SumOverSet(Symbols, base)

RECURSIVE RatSumOverSet(_, _)
RatSumOverSet(S, f) ==
    IF S = {} THEN Rat(0, 1)
    ELSE LET x == CHOOSE x \in S : TRUE
         IN  RatAdd(f[x], RatSumOverSet(S \ {x}, f))

\* a term map without its zero coefficients
DropZeros(p) == [b \in {b \in DOMAIN p : p[b].num # 0} |-> p[b]]

PolyAdd(p, q) ==
    DropZeros([b \in (DOMAIN p) \cup (DOMAIN q) |->
        RatAdd(IF b \in DOMAIN p THEN p[b] ELSE Rat(0, 1),
               IF b \in DOMAIN q THEN q[b] ELSE Rat(0, 1))])

PolyMul(p, q) ==
    LET pairs == (DOMAIN p) \X (DOMAIN q)
        prod  == [pr \in pairs |-> RatMul(p[pr[1]], q[pr[2]])]
    IN  DropZeros([b \in {BaseMul(pr[1], pr[2]) : pr \in pairs} |->
            RatSumOverSet({pr \in pairs : BaseMul(pr[1], pr[2]) = b}, prod)])

\* accumulate_polynomial_terms(expr): like terms collected, products expanded
RECURSIVE accumulate_polynomial_terms(_)
accumulate_polynomial_terms(e) ==
    CASE e.t = "lit" -> DropZeros([b \in {ConstantBase} |-> Rat(e.num, 1)])
      [] e.t = "flt" -> DropZeros([b \in {ConstantBase} |-> Rat(e.num, e.den)])
      [] e.t = "var" -> [b \in {BaseOf(e.name)} |-> Rat(1, 1)]
      [] e.t = "sum" -> PolyAdd(accumulate_polynomial_terms(e.args[1]),
                                accumulate_polynomial_terms(e.args[2]))
      [] e.t = "prod" -> PolyMul(accumulate_polynomial_terms(e.args[1]),
                                 accumulate_polynomial_terms(e.args[2]))
      [] OTHER -> [b \in {} |-> Rat(0, 1)]

(***************************************************************************)
(* construct_affine_array_access_function_representation                   *)
(***************************************************************************)
\* is_constant(expr) or isinstance(expr, supported_types)
IsSupported(e) == e.t \in {"lit", "flt", "var", "sum", "prod"}

\* position of x in the list: list.index(x)
IndexOf(s, x) == CHOOSE k \in 1..Len(s) : s[k] = x /\ \A m \in 1..(k - 1) : s[m] # x

\* the single symbol of a base with one factor: base[0].name.lower()
SymbolOf(base) == CHOOSE n \in Symbols : base[n] = 1

RowOk(row, const) == [err |-> "", row |-> row, const |-> const]
RowError(err) == [err |-> err, row |-> <<>>, const |-> 0]

\* generate_row with the constant term looked up under a key that is
\* never present, so that every offset is 0
generate_row_NoConstant(expr, variables) ==
    IF ~IsSupported(expr) THEN RowError("ValueError: Cannot derive inequality")
    ELSE
      LET terms == accumulate_polynomial_terms(simplify(expr))
          bases == (DOMAIN terms) \ {ConstantBase}
      IN  IF \E b \in bases : FactorCount(b) # 1
          THEN RowError("ValueError: Non-affine bound")
          ELSE IF \E b \in DOMAIN terms : ~IsInteger(terms[b])
          THEN RowError("TypeError")
          ELSE RowOk(
                 [k \in 1..Len(variables) |->
                    IF \E b \in bases : IndexOf(variables, SymbolOf(b)) = k
                    THEN terms[CHOOSE b \in bases :
                                 IndexOf(variables, SymbolOf(b)) = k].num
                    ELSE 0],
                 0)

\* generate_row storing a non-integer coefficient rounded down
generate_row_Rounding(expr, variables) ==
    IF ~IsSupported(expr) THEN RowError("ValueError: Cannot derive inequality")
    ELSE
      LET terms      == accumulate_polynomial_terms(simplify(expr))
          const_term == IF ConstantBase \in DOMAIN terms
                        THEN terms[ConstantBase] ELSE Rat(0, 1)
          bases      == (DOMAIN terms) \ {ConstantBase}
      IN  IF \E b \in bases : FactorCount(b) # 1
          THEN RowError("ValueError: Non-affine bound")
          ELSE RowOk(
                 [k \in 1..Len(variables) |->
                    IF \E b \in bases : IndexOf(variables, SymbolOf(b)) = k
                    THEN LET c == terms[CHOOSE b \in bases :
                                      IndexOf(variables, SymbolOf(b)) = k]
                         IN  FloorDiv(c.num, c.den)
                    ELSE 0],
                 FloorDiv(const_term.num, const_term.den))

\* generate_row without the test len(base) == 1: other terms are skipped
generate_row_NoAffineTest(expr, variables) ==
    IF ~IsSupported(expr) THEN RowError("ValueError: Cannot derive inequality")
    ELSE
      LET terms      == accumulate_polynomial_terms(simplify(expr))
          const_term == IF ConstantBase \in DOMAIN terms
                        THEN terms[ConstantBase] ELSE Rat(0, 1)
          bases      == {b \in (DOMAIN terms) \ {ConstantBase} :
                             FactorCount(b) = 1}
      IN  IF \E b \in bases : ~IsInteger(terms[b])
          THEN RowError("TypeError")
          ELSE IF ~IsInteger(const_term) THEN RowError("TypeError")
          ELSE RowOk(
                 [k \in 1..Len(variables) |->
                    IF \E b \in bases : IndexOf(variables, SymbolOf(b)) = k
                    THEN terms[CHOOSE b \in bases :
                                 IndexOf(variables, SymbolOf(b)) = k].num
                    ELSE 0],
                 const_term.num)

\* generate_row(expr, variables): the row of F and the entry of f, or the
\* error raised.  The int arrays hold an integer coefficient as it is and
\* refuse (TypeError) a coefficient that is not a number they can hold.
generate_row(expr, variables) ==
    IF ~IsSupported(expr) THEN RowError("ValueError: Cannot derive inequality")
    ELSE
      LET terms      == accumulate_polynomial_terms(simplify(expr))
          const_term == IF ConstantBase \in DOMAIN terms
                        THEN terms[ConstantBase] ELSE Rat(0, 1)
          bases      == (DOMAIN terms) \ {ConstantBase}
      IN  IF \E b \in bases : FactorCount(b) # 1
          THEN RowError("ValueError: Non-affine bound")
          ELSE IF \E b \in bases : ~IsInteger(terms[b])
          THEN RowError("TypeError")
          ELSE IF ~IsInteger(const_term) THEN RowError("TypeError")
          ELSE RowOk(
                 [k \in 1..Len(variables) |->
                    IF \E b \in bases : IndexOf(variables, SymbolOf(b)) = k
                    THEN terms[CHOOSE b \in bases :
                                 IndexOf(variables, SymbolOf(b)) = k].num
                    ELSE 0],
                 const_term.num)

RECURSIVE unique_order_preserving(_)
unique_order_preserving(sequence) ==
    IF sequence = <<>> THEN <<>>
    ELSE LET init == unique_order_preserving(
                         SubSeq(sequence, 1, Len(sequence) - 1))
             x    == sequence[Len(sequence)]
         IN  IF x \in SeqToSet(init) THEN init ELSE Append(init, x)

AffineNotCalled ==
    [state |-> "idle", F |-> <<>>, f |-> <<>>, variables |-> <<>>]
AffineError(err) ==
    [state |-> err, F |-> <<>>, f |-> <<>>, variables |-> <<>>]

\* the lower-cased names found in the dimension expressions
FoundNames(array_dimensions_expr) ==
    {Lower(n) : n \in UNION {FindVariables(array_dimensions_expr[k]) :
                                 k \in 1..Len(array_dimensions_expr)}}

\* the lists a set of names can be iterated as
Orderings(S) ==
    {s \in [1..Cardinality(S) -> S] : \A a, b \in 1..Cardinality(S) :
                                          s[a] = s[b] => a = b}

\* the function without the assertion on the additional variables
construct_affine_without_assert(array_dimensions_expr, additional_variables, set_order) ==
    LET variables == unique_order_preserving(
                         additional_variables \o set_order)
        n    == Len(array_dimensions_expr)
        rows == [k \in 1..n |->
                   generate_row(array_dimensions_expr[k], variables)]
    IN  IF \E k \in 1..n : rows[k].err # ""
        THEN AffineError(
               rows[CHOOSE k \in 1..n :
                      /\ rows[k].err # ""
                      /\ \A m \in 1..(k - 1) : rows[m].err = ""].err)
        ELSE [state |-> "returned",
              F |-> [k \in 1..n |-> rows[k].row],
              f |-> [k \in 1..n |-> <<rows[k].const>>],
              variables |-> variables]

\* set_order: the order in which list({...}) iterates the set of names
construct_affine_array_access_function_representation(array_dimensions_expr, additional_variables, set_order) ==
    IF \E k \in 1..Len(additional_variables) :
           Lower(additional_variables[k]) # additional_variables[k]
    THEN AffineError("AssertionError")
    ELSE
      LET variables == unique_order_preserving(
                           additional_variables \o set_order)
          n    == Len(array_dimensions_expr)
          rows == [k \in 1..n |->
                     generate_row(array_dimensions_expr[k], variables)]
      IN  IF \E k \in 1..n : rows[k].err # ""
          THEN AffineError(
                 rows[CHOOSE k \in 1..n :
                        /\ rows[k].err # ""
                        /\ \A m \in 1..(k - 1) : rows[m].err = ""].err)
          ELSE [state |-> "returned",
                F |-> [k \in 1..n |-> rows[k].row],
                f |-> [k \in 1..n |-> <<rows[k].const>>],
                variables |-> variables]

(***************************************************************************)
(* IR nodes.  A node is a record [kind, id, variable, start, stop, step,   *)
(* body, exprs]: a "loop" (id tells the Loop objects of a tree apart), a   *)
(* "cond" (exprs = <<condition>>) or a "stmt" (exprs = its subscripts).    *)
(* A tree is the tuple of the nodes of a body.                             *)
(***************************************************************************)
Loop(id, variable, start, stop, step, body) ==
    [kind |-> "loop", id |-> id, variable |-> variable, start |-> start,
     stop |-> stop, step |-> step, body |-> body, exprs |-> <<>>]
Conditional(condition, body) ==
    [kind |-> "cond", id |-> 0, variable |-> "", start |-> None,
     stop |-> None, step |-> None, body |-> body, exprs |-> <<condition>>]
Statement(exprs) ==
    [kind |-> "stmt", id |-> 0, variable |-> "", start |-> None,
     stop |-> None, step |-> None, body |-> <<>>, exprs |-> exprs]

IsLoop(node) == node.kind = "loop"

\* FindNodes(Loop, greedy=True).visit(nodes): the outermost loops, in
\* order; the children of a loop that was found are not searched
RECURSIVE FindLoopsGreedy(_)
FindLoopsGreedy(nodes) ==
    IF nodes = <<>> THEN <<>>
    ELSE LET node == Head(nodes)
         IN  (IF IsLoop(node) THEN <<node>> ELSE FindLoopsGreedy(node.body))
                 \o FindLoopsGreedy(Tail(nodes))

\* FindNodes(Loop).visit(nodes): every loop, in order
RECURSIVE FindLoops(_)
FindLoops(nodes) ==
    IF nodes = <<>> THEN <<>>
    ELSE LET node == Head(nodes)
         IN  (IF IsLoop(node) THEN <<node>> ELSE <<>>)
                 \o FindLoops(node.body) \o FindLoops(Tail(nodes))

\* the loops of the body only, without those nested in them
_implementation_get_nested_loops_BodyOnly(loop) == SelectSeq(loop.body, IsLoop)

RECURSIVE _implementation_get_nested_loops(_)
RECURSIVE NestedOfEach(_)
_implementation_get_nested_loops(loop) ==
    LET loops == SelectSeq(loop.body, IsLoop)
    IN  loops \o NestedOfEach(loops)
NestedOfEach(loops) ==
    IF loops = <<>> THEN <<>>
    ELSE _implementation_get_nested_loops(Head(loops))
             \o NestedOfEach(Tail(loops))

get_nested_loops(loop) ==
    (IF IsLoop(loop) THEN <<loop>> ELSE <<>>)
        \o _implementation_get_nested_loops(loop)

\* _simplify(expression): simplify with IntegerArithmetic | CollectCoefficients
_simplify(expression) == simplify(expression)

\* pymbolic's a - b
Minus(a, b) == Sum(a, Product(IntLiteral(-1), b))

\* SubstituteExpressionsMapper on one expression: the symbol called name
\* becomes the expression by
RECURSIVE SubstituteInExpr(_, _, _)
SubstituteInExpr(e, name, by) ==
    IF e.t = "var" /\ e.name = name THEN by
    ELSE [e EXCEPT !.args = [k \in 1..Len(e.args) |->
                                SubstituteInExpr(e.args[k], name, by)]]

\* a map of at most one symbol: {} or {loop_variable: by}
EmptyMap == [empty |-> TRUE, name |-> "", by |-> None]
MapOf(name, by) == [empty |-> FALSE, name |-> name, by |-> by]

\* SubstituteExpressions(map).visit(nodes): every expression of the subtree
RECURSIVE SubstituteExpressions(_, _)
SubstituteExpressions(map, nodes) ==
    IF map.empty THEN nodes
    ELSE [k \in 1..Len(nodes) |->
            [nodes[k] EXCEPT
               !.start = SubstituteInExpr(@, map.name, map.by),
               !.stop  = SubstituteInExpr(@, map.name, map.by),
               !.step  = SubstituteInExpr(@, map.name, map.by),
               !.exprs = [m \in 1..Len(@) |->
                            SubstituteInExpr(@[m], map.name, map.by)],
               !.body  = SubstituteExpressions(map, @)]]

HasValue(e) == e.t = "lit"

\* a test that finds no range normalised, so that every loop is rewritten
IsNormalizedRange_Never(a, c) == FALSE

\* "a == c == 1"
IsNormalizedRange(a, c) == a = c /\ c = IntLiteral(1)

\* the upper bound with a division that rounds towards zero
LiteralUpperBound_Truncating(a, b, c) == TruncDiv(b.num - a.num, c.num) + 1

\* (b.value - a.value) // c.value + 1
LiteralUpperBound(a, b, c) == FloorDiv(b.num - a.num, c.num) + 1

\* an upper bound that is always the symbolic expression
UpperBound_Symbolic(a, b, c) ==
    _simplify(Sum(Quotient(Minus(b, a), c), IntLiteral(1)))

\* the upper bound of the rewritten range (lines 142-145)
UpperBound(a, b, c) ==
    IF HasValue(b) /\ HasValue(a) /\ HasValue(c)
    THEN IntLiteral(LiteralUpperBound(a, b, c))
    ELSE _simplify(Sum(Quotient(Minus(b, a), c), IntLiteral(1)))

\* a lookup that always gives the original element
Get_Original(new_node, element) == element

\* new_node.get(element, element)
Get(new_node, element) ==
    IF IsLoop(element) /\ element.id \in DOMAIN new_node
    THEN new_node[element.id] ELSE element

\* one pass of "for loop_node in reversed(nested_loops)": the rewritten
\* loop is recorded in new_node
RewriteLoop(loop_node, new_node) ==
    LET a == loop_node.start
        b == loop_node.stop
        c == IF loop_node.step = None THEN IntLiteral(1) ELSE loop_node.step
        rewrite == ~IsNormalizedRange(a, c)
        loop_variable_map ==
            IF rewrite
            THEN MapOf(loop_node.variable,
                       _simplify(Sum(Product(Minus(Var(loop_node.variable),
                                                   IntLiteral(1)), c), a)))
            ELSE EmptyMap
        copy_body == [k \in 1..Len(loop_node.body) |->
                         Get(new_node, loop_node.body[k])]
        new_body == SubstituteExpressions(loop_variable_map, copy_body)
        clone == IF rewrite
                 THEN [loop_node EXCEPT !.start = IntLiteral(1),
                                        !.stop = UpperBound(a, b, c),
                                        !.step = IntLiteral(1),
                                        !.body = new_body]
                 ELSE [loop_node EXCEPT !.body = new_body]
    IN  (loop_node.id :> clone) @@ new_node

RECURSIVE RewriteLoops(_, _)
RewriteLoops(loops, new_node) ==
    IF loops = <<>> THEN new_node
    ELSE RewriteLoops(Tail(loops), RewriteLoop(Head(loops), new_node))

RECURSIVE reversed(_)
reversed(s) == IF s = <<>> THEN <<>> ELSE Append(reversed(Tail(s)), Head(s))

NoNodes == [id \in {} |-> None]

\* the replacement of one outermost loop: transformer_map[loop_start]
RewriteNest(loop_start) ==
    RewriteLoops(reversed(get_nested_loops(loop_start)), NoNodes)[loop_start.id]

\* Transformer(transformer_map).visit(nodes): a mapped node is replaced,
\* any other node is rebuilt from its visited children
RECURSIVE Transformer(_, _)
Transformer(transformer_map, nodes) ==
    [k \in 1..Len(nodes) |->
        IF IsLoop(nodes[k]) /\ nodes[k].id \in DOMAIN transformer_map
        THEN transformer_map[nodes[k].id]
        ELSE [nodes[k] EXCEPT !.body = Transformer(transformer_map, @)]]

\* a rewrite that carries the first nest into every other one
normalize_bounds_FirstNestCarried(start_node) ==
    LET loops_greedy == FindLoopsGreedy(start_node)
        transformer_map ==
            [id \in {loops_greedy[k].id : k \in 1..Len(loops_greedy)} |->
                RewriteNest(loops_greedy[1])]
    IN  Transformer(transformer_map, start_node)

\* a rewrite that returns the rewritten nests alone
normalize_bounds_NestsAlone(start_node) ==
    LET loops_greedy == FindLoopsGreedy(start_node)
    IN  [k \in 1..Len(loops_greedy) |-> RewriteNest(loops_greedy[k])]

\* start_node after the call: the function assigns only to its local
\* dictionaries, and clone and the visitors build new nodes
ArgumentAfter(start_node) == start_node

normalize_bounds(start_node) ==
    LET loops_greedy == FindLoopsGreedy(start_node)
        transformer_map ==
            [id \in {loops_greedy[k].id : k \in 1..Len(loops_greedy)} |->
                RewriteNest(CHOOSE l \in SeqToSet(loops_greedy) : l.id = id)]
    IN  Transformer(transformer_map, start_node)

(***************************************************************************)
(* Running a body: the values of the subscripts of every statement that   *)
(* is executed, in order.  A do loop runs max(0, (stop - start + step) /   *)
(* step) times; a conditional runs its body when its condition is even.    *)
(***************************************************************************)
TripCount(a, b, c) ==
    IF c = 0 THEN 0
    ELSE LET n == TruncDiv(b - a + c, c) IN IF n > 0 THEN n ELSE 0

RECURSIVE Run(_, _)
RECURSIVE RunNode(_, _)
RECURSIVE RunLoop(_, _, _, _, _)
Run(nodes, env) ==
    IF nodes = <<>> THEN <<>>
    ELSE RunNode(Head(nodes), env) \o Run(Tail(nodes), env)
RunNode(node, env) ==
    CASE node.kind = "stmt" ->
           << [m \in 1..Len(node.exprs) |-> Eval(node.exprs[m], env)] >>
      [] node.kind = "cond" ->
           IF Eval(node.exprs[1], env) % 2 = 0 THEN Run(node.body, env)
           ELSE <<>>
      [] OTHER ->
           LET a == Eval(node.start, env)
               c == IF node.step = None THEN 1 ELSE Eval(node.step, env)
           IN  RunLoop(node, env, a, c,
                       TripCount(a, Eval(node.stop, env), c))
RunLoop(node, env, value, c, left) ==
    IF left = 0 THEN <<>>
    ELSE Run(node.body, [env EXCEPT ![node.variable] = value])
             \o RunLoop(node, env, value + c, c, left - 1)

(***************************************************************************)
(* Inputs of the linear-system specification.                              *)
(***************************************************************************)
MaxEntry == 2

Entries == (-MaxEntry)..MaxEntry

\* augmented matrices [A | r]: (rows, columns) with the last column r
Shapes == {<<1, 2>>, <<1, 3>>, <<1, 4>>, <<2, 2>>, <<2, 3>>}

MatricesOf(s) == [1..s[1] -> [1..s[2] -> Entries]]

NotCalled == [state |-> "idle", out |-> <<>>]

\* the rows named in the documentation of the GCD test
ExampleMatrices ==
    { << <<2, 4, 3>> >>, << <<2, 4, 6>> >>,
      << <<0, 0, 3>> >>, << <<1, 2, 1>>, <<2, 4, 3>> >> }

(***************************************************************************)
(* Inputs of the access-function specification.                            *)
(***************************************************************************)
MaxDims == 2

DimensionExprs ==
    { IntLiteral(1), IntLiteral(2), Var("i"), Var("j"), Var("I"),
      Sum(Var("i"), IntLiteral(-1)),
      Sum(Var("j"), IntLiteral(1)),
      Sum(Product(IntLiteral(2), Var("i")), Var("j")),
      Sum(Var("k"), Var("i")),
      Sum(Var("i"), Product(IntLiteral(-1), Var("i"))),
      Product(IntLiteral(2), Sum(Var("i"), IntLiteral(1))),
      Product(Var("i"), Var("j")),
      Product(FloatLiteral(1, 2), Var("i")),
      RangeIndex }

\* z(1, i, 2*i+j), the largest subscript list of the tests
ExampleDims ==
    { <<IntLiteral(1), Var("i"), Sum(Product(IntLiteral(2), Var("i")), Var("j"))>> }

ExtraVariables ==
    { <<>>, <<"i", "j">>, <<"j", "i">>, <<"k">>, <<"i", "i">>, <<"I">>,
      <<"k", "J">> }

(***************************************************************************)
(* Inputs of the normalisation specification: loop nests whose ranges are  *)
(* drawn from small literals, and one nest with a symbolic inner range.    *)
(***************************************************************************)
MaxStart == 2
MaxStop == 3
MaxStep == 2
MaxCalls == 2

Starts == {IntLiteral(v) : v \in 0..MaxStart}
Stops == {IntLiteral(v) : v \in 0..MaxStop}
Steps == {None} \cup {IntLiteral(v) : v \in ((-MaxStep)..MaxStep) \ {0}}
Ranges == Starts \X Stops \X Steps

LoopOver(id, variable, r, body) == Loop(id, variable, r[1], r[2], r[3], body)

\* do i ...; x(i); end do
SingleLoop(r) ==
    << LoopOver(1, "i", r, << Statement(<<Var("i")>>) >>) >>

\* do i ...; x(i); do j ...; x(i, j + 1); end do; end do
NestedLoops(r1, r2) ==
    << LoopOver(1, "i", r1,
         << Statement(<<Var("i")>>),
            LoopOver(2, "j", r2,
              << Statement(<<Var("i"), Sum(Var("j"), IntLiteral(1))>>) >>) >>) >>

\* do i ...; if (even(i)) then; do j ...; x(i, j); end do; end if; end do
LoopInConditionalInLoop(r1, r2) ==
    << LoopOver(1, "i", r1,
         << Conditional(Var("i"),
              << LoopOver(2, "j", r2,
                   << Statement(<<Var("i"), Var("j")>>) >>) >>) >>) >>

\* two nests side by side, with a statement between them
TwoNests(r1, r2) ==
    << LoopOver(1, "i", r1, << Statement(<<Var("i")>>) >>),
       Statement(<<IntLiteral(0)>>),
       LoopOver(2, "j", r2, << Statement(<<Var("j")>>) >>) >>

\* if (...) then; do i ...; x(i); end do; end if
LoopInConditional(r) ==
    << Conditional(IntLiteral(0),
         << LoopOver(1, "i", r, << Statement(<<Var("i")>>) >>) >>) >>

\* three levels: do i ...; do j = 3, 1, -1; do k ...; x(i, j, k)
DeepLoops(r1, r3) ==
    << LoopOver(1, "i", r1,
         << Loop(2, "j", IntLiteral(3), IntLiteral(1), IntLiteral(-1),
              << LoopOver(3, "k", r3,
                   << Statement(<<Var("i"), Var("j"), Var("k")>>) >>) >>) >>) >>

\* the inner range starts at the outer variable: do j = i, stop, step
TriangularLoops(r1, r2) ==
    << LoopOver(1, "i", r1,
         << Loop(2, "j", Var("i"), r2[2], r2[3],
              << Statement(<<Var("i"), Var("j")>>) >>) >>) >>

\* two loops with a loop each, the second under a conditional:
\* do i; do j; do k; x(i, j, k); end do; end do; x(i); do k; if; do j ...
BranchingLoops(r1, r2) ==
    << LoopOver(1, "i", r1,
         << LoopOver(2, "j", r2,
              << LoopOver(4, "k", r1,
                   << Statement(<<Var("i"), Var("j"), Var("k")>>) >>) >>),
            Statement(<<Var("i")>>),
            LoopOver(3, "k", r2,
              << Conditional(Var("k"),
                   << LoopOver(5, "j", r1,
                        << Statement(<<Var("k"), Var("j")>>) >>) >>) >>) >>) >>

\* the inner stop (position 2) or step (position 3) is the outer variable:
\* do j = start, i, step  or  do j = start, stop, i
SymbolicLoops(r1, r2, position) ==
    << LoopOver(1, "i", r1,
         << Loop(2, "j", r2[1],
                 IF position = 2 THEN Var("i") ELSE r2[2],
                 IF position = 3 THEN Var("i") ELSE r2[3],
              << Statement(<<Var("i"), Var("j")>>) >>) >>) >>

\* do i = 2, 20, 3
ExamplePrograms ==
    { SingleLoop(<<IntLiteral(2), IntLiteral(20), IntLiteral(3)>>) }

\* ranges of the second loop of a nest: normalised, shifted, strided,
\* descending and empty ones
InnerRanges ==
    { <<IntLiteral(1), IntLiteral(3), None>>,
      <<IntLiteral(1), IntLiteral(2), IntLiteral(1)>>,
      <<IntLiteral(2), IntLiteral(3), None>>,
      <<IntLiteral(0), IntLiteral(3), IntLiteral(2)>>,
      <<IntLiteral(3), IntLiteral(0), IntLiteral(-2)>>,
      <<IntLiteral(2), IntLiteral(1), IntLiteral(2)>>,
      <<IntLiteral(1), IntLiteral(2), IntLiteral(-1)>> }

RangePairs == (Ranges \X InnerRanges) \cup (InnerRanges \X Ranges)

Programs ==
    {SingleLoop(r) : r \in Ranges}
        \cup {NestedLoops(rr[1], rr[2]) : rr \in RangePairs}
        \cup {LoopInConditionalInLoop(rr[1], rr[2]) : rr \in RangePairs}
        \cup {TwoNests(rr[1], rr[2]) : rr \in RangePairs}
        \cup {LoopInConditional(r) : r \in Ranges}
        \cup {DeepLoops(rr[1], rr[2]) : rr \in RangePairs}
        \cup {TriangularLoops(rr[1], rr[2]) : rr \in RangePairs}
        \cup {BranchingLoops(rr[1], rr[2]) : rr \in InnerRanges \X InnerRanges}
        \cup {SymbolicLoops(rr[1], rr[2], 2) : rr \in InnerRanges \X InnerRanges}
        \cup {SymbolicLoops(rr[1], rr[2], 3) : rr \in InnerRanges \X InnerRanges}
        \cup ExamplePrograms

(***************************************************************************)
(* Specifications: each draws the arguments of one function and calls it.  *)
(***************************************************************************)
RefIdle == matrix0 = <<>> /\ matrix = <<>> /\ ref = NotCalled
AffineIdle == dims = <<>> /\ extras = <<>> /\ affine = AffineNotCalled
NormIdle ==
    program0 = <<>> /\ previous = <<>> /\ program = <<>> /\ calls = 0
LinAlgNotCalled == [state |-> "idle", out |-> <<>>]
LinAlgIdle ==
    right_hand_side = <<>> /\ drop_zero_rows = FALSE /\ linalg = LinAlgNotCalled
\* no interval: the result of a call that has not returned
NoInterval == [kind |-> "none", start |-> 0, stop |-> 0]
NoOperands == [op |-> "", x |-> NoInterval, y |-> NoInterval]
IntervalNotCalled == [state |-> "idle", fn |-> "", out |-> NoInterval]
IntervalIdle == operands = NoOperands /\ interval = IntervalNotCalled
NestedNotCalled == [arg |-> <<>>, yields |-> <<>>]
NestedIdle == nested = NestedNotCalled /\ frames = 0

InitRef ==
    /\ \/ \E s \in Shapes : matrix0 \in MatricesOf(s)
       \/ matrix0 \in ExampleMatrices
    /\ matrix = matrix0
    /\ ref = NotCalled
    /\ AffineIdle
    /\ NormIdle
    /\ NestedIdle
    /\ LinAlgIdle
    /\ IntervalIdle

CallRowEchelon ==
    /\ ref.state = "idle"
    /\ LET res == row_echelon_form_under_gcd_condition(matrix)
       IN  /\ ref' = [state |-> IF res.raised THEN "NoIntegerSolution"
                                ELSE "returned",
                      out |-> res.out]
           /\ matrix' = res.arg
    /\ UNCHANGED <<matrix0, dims, extras, affine,
                   program0, previous, program, calls>>
    /\ UNCHANGED helperVars

NextRef == CallRowEchelon

SpecRef == InitRef /\ [][NextRef]_vars

InitAffine ==
    /\ \/ \E n \in 1..MaxDims : dims \in [1..n -> DimensionExprs]
       \/ dims \in ExampleDims
    /\ extras \in ExtraVariables
    /\ affine = AffineNotCalled
    /\ RefIdle
    /\ NormIdle
    /\ NestedIdle
    /\ LinAlgIdle
    /\ IntervalIdle

CallConstructAffine ==
    /\ affine.state = "idle"
    /\ \E set_order \in Orderings(FoundNames(dims)) :
          affine' = construct_affine_array_access_function_representation(
                        dims, extras, set_order)
    /\ UNCHANGED <<dims, extras, matrix0, matrix, ref,
                   program0, previous, program, calls>>
    /\ UNCHANGED helperVars

NextAffine == CallConstructAffine

SpecAffine == InitAffine /\ [][NextAffine]_vars

InitNorm ==
    /\ program0 \in Programs
    /\ previous = program0
    /\ program = program0
    /\ calls = 0
    /\ RefIdle
    /\ AffineIdle
    /\ LinAlgIdle
    /\ IntervalIdle
    /\ NestedIdle

\* subroutine.body = normalize_bounds(subroutine.body)
CallNormalizeBounds ==
    /\ calls < MaxCalls
    /\ previous' = ArgumentAfter(program)
    /\ program' = normalize_bounds(program)
    /\ calls' = calls + 1
    /\ UNCHANGED <<program0, matrix0, matrix, ref, dims, extras, affine>>
    /\ UNCHANGED helperVars

NextNorm == CallNormalizeBounds

SpecNorm == InitNorm /\ [][NextNorm]_vars

(***************************************************************************)
(* Linear Diophantine equations, stated without the code's gcd.            *)
(***************************************************************************)
Divides(d, x) == \E k \in (-Abs(x))..Abs(x) : x = k * d

RECURSIVE MaxAbs(_)
MaxAbs(xs) ==
    IF xs = <<>> THEN 0
    ELSE LET m == MaxAbs(Tail(xs))
         IN  IF Abs(Head(xs)) > m THEN Abs(Head(xs)) ELSE m

\* g is the greatest common divisor of the entries of xs (not all zero)
IsGreatestCommonDivisor(g, xs) ==
    /\ g > 0
    /\ \A j \in 1..Len(xs) : Divides(g, xs[j])
    /\ \A d \in 1..MaxAbs(xs) :
          (\A j \in 1..Len(xs) : Divides(d, xs[j])) => d <= g

RECURSIVE Dot(_, _)
Dot(row, x) ==
    IF x = <<>> THEN 0 ELSE Head(row) * Head(x) + Dot(Tail(row), Tail(x))

SolutionRange == (-(2 * MaxEntry + 2))..(2 * MaxEntry + 2)

\* some integer vector in the search box solves every row of [A | r]
HasIntegerSolution(M) ==
    LET n == Len(M[1]) - 1
    IN  \E x \in [1..n -> SolutionRange] :
            \A i \in 1..Len(M) : Dot(M[i], x) = M[i][n + 1]

SingleRowWithCoefficient(M) ==
    /\ Len(M) = 1
    /\ \E j \in 1..(Len(M[1]) - 1) : M[1][j] # 0

\* C9: for a single-row augmented matrix [a1 .. an | r] with a non-zero
\* coefficient, the call raises NoIntegerSolution exactly when the greatest
\* common divisor of a1 .. an does not divide r; [2, 4 | 3] raises and
\* [2, 4 | 6] returns.
C9_SingleRowGcdIff ==
    (ref.state # "idle" /\ SingleRowWithCoefficient(matrix0)) =>
        LET row == matrix0[1]
            r   == row[Len(row)]
        IN  /\ \A g \in 1..MaxAbs(Coefficients(row)) :
                  IsGreatestCommonDivisor(g, Coefficients(row)) =>
                      (ref.state = "NoIntegerSolution" <=> ~Divides(g, r))
            /\ matrix0 = << <<2, 4, 3>> >> => ref.state = "NoIntegerSolution"
            /\ matrix0 = << <<2, 4, 6>> >> => ref.state = "returned"

C9_Witness ==
    /\ matrix0 = << <<2, 4, 3>> >>
    /\ ref.state = "NoIntegerSolution"

\* C10: NoIntegerSolution is raised only for systems without an integer
\* solution: a multi-row system that has one makes the call return.
C10_RaisesOnlyWhenInfeasible ==
    (ref.state # "idle" /\ Len(matrix0) >= 2 /\ HasIntegerSolution(matrix0))
        => ref.state = "returned"

(***************************************************************************)
(* Affine access functions.                                                *)
(***************************************************************************)
ZeroEnv == [n \in Symbols |-> 0]
UnitEnv(v) == [n \in Symbols |-> IF n = v THEN 1 ELSE 0]

\* the coefficient of symbol v and the constant of an affine expression,
\* read off its values
CoefficientOf(e, v) == Eval(e, UnitEnv(v)) - Eval(e, ZeroEnv)
ConstantOf(e) == Eval(e, ZeroEnv)

\* C5: when the call returns, F has one row per dimension and one column
\* per variable of the basis, F[i][index_of(v)] is the integer coefficient
\* of v in dimension expression i (0 when v does not occur) and f[i] its
\* constant term; ("1", "i", "2*i+j") over [i, j] gives
\* F = [[0,0],[1,0],[2,1]] and f = [[1],[0],[0]].
C5_CoefficientsAndOffsets ==
    affine.state = "returned" =>
        /\ Len(affine.F) = Len(dims) /\ Len(affine.f) = Len(dims)
        /\ \A k \in 1..Len(dims) :
              /\ Len(affine.F[k]) = Len(affine.variables)
              /\ affine.f[k] = <<ConstantOf(dims[k])>>
              /\ \A c \in 1..Len(affine.variables) :
                    affine.F[k][c] =
                        CoefficientOf(dims[k], affine.variables[c])
        /\ (dims \in ExampleDims /\ extras = <<"i", "j">>) =>
              /\ affine.F = << <<0, 0>>, <<1, 0>>, <<2, 1>> >>
              /\ affine.f = << <<1>>, <<0>>, <<0>> >>

C5_Witness ==
    /\ affine.state = "returned"
    /\ dims \in ExampleDims
    /\ extras = <<"i", "j">>
    /\ affine.F = << <<0, 0>>, <<1, 0>>, <<2, 1>> >>

RECURSIVE LowerSeq(_)
LowerSeq(names) ==
    IF names = <<>> THEN <<>>
    ELSE <<Lower(Head(names))>> \o LowerSeq(Tail(names))

\* C6: the returned basis is the extra variables followed by the names of
\* the dimension expressions in the order of their first occurrence,
\* without repetitions.
C6_FirstOccurrenceOrder ==
    affine.state = "returned" =>
        affine.variables =
            unique_order_preserving(extras \o LowerSeq(NamesInOrderSeq(dims)))

\* the exact term map of the simplified dimension expression
ExactTerms(e) == accumulate_polynomial_terms(simplify(e))

HasFraction(e) == \E b \in DOMAIN ExactTerms(e) : ~IsInteger(ExactTerms(e)[b])

HasNonAffineTerm(e) ==
    \E b \in DOMAIN ExactTerms(e) : b # ConstantBase /\ FactorCount(b) # 1

LowerCase(names) == \A k \in 1..Len(names) : Lower(names[k]) = names[k]

Accepted(e) == IsSupported(e) /\ ~HasNonAffineTerm(e) /\ ~HasFraction(e)

LoopsOf(nodes) == SeqToSet(FindLoops(nodes))

StepIsOne(loop) == loop.step = None \/ loop.step = IntLiteral(1)

HasLiteralBounds(loop) ==
    /\ HasValue(loop.start)
    /\ HasValue(loop.stop)
    /\ loop.step = None \/ HasValue(loop.step)

AllLiteralBounds(nodes) == \A loop \in LoopsOf(nodes) : HasLiteralBounds(loop)

IsNormalized(loop) == loop.start = IntLiteral(1) /\ StepIsOne(loop)

\* C1: after normalize_bounds every loop found anywhere under the result,
\* at any depth and also inside a conditional of a loop body, has start 1
\* and step 1 (a missing step counting as 1).
C1_EveryLoopNormalized ==
    calls >= 1 => \A loop \in LoopsOf(program) : IsNormalized(loop)

\* C2: for nests with integer-literal bounds, the body run under the
\* normalised bounds, with the remapped induction variables, computes the
\* same original index tuples, in the same order and as many times, as the
\* body run under the original bounds.
C2_SameIterations ==
    (calls >= 1 /\ AllLiteralBounds(program0)) =>
        Run(program, ZeroEnv) = Run(program0, ZeroEnv)

C2_Witness ==
    /\ calls = 1
    /\ program0 = NestedLoops(<<IntLiteral(0), IntLiteral(3), IntLiteral(2)>>,
                              <<IntLiteral(3), IntLiteral(0), IntLiteral(-2)>>)
    /\ \A loop \in LoopsOf(program) : IsNormalized(loop)
    /\ Len(Run(program, ZeroEnv)) = 6

\* q = floor(x / c), stated by its defining inequalities
IsFloorOf(q, x, c) ==
    IF c > 0 THEN q * c <= x /\ x < (q + 1) * c
    ELSE q * c >= x /\ x > (q + 1) * c

\* sub[v] = <<c, a>>: symbol v stands for (v - 1) * c + a
IdentityRemap == [v \in Symbols |-> <<1, 1>>]
Remapped(env, sub) ==
    [v \in Symbols |-> (env[v] - 1) * sub[v][1] + sub[v][2]]

TestEnvs == [Symbols -> {0, 3}]

SameUnderRemap(old, new, sub) ==
    /\ Len(old) = Len(new)
    /\ \A m \in 1..Len(old) : \A env \in TestEnvs :
          Eval(new[m], env) = Eval(old[m], Remapped(env, sub))

\* The rewriting C3 describes, of the nodes old into the nodes new: a loop
\* with literal bounds (a, b, c) that is not normalised gets the bounds
\* (1, floor((b - a) / c) + 1, 1), and in its body its variable i stands
\* for (i - 1) * c + a.  inLoop: the nodes lie within a loop body;
\* everyLoop: the loops inside a conditional of a loop body are included.
RECURSIVE RewrittenAsClaimed(_, _, _, _, _)
RewrittenAsClaimed(old, new, sub, inLoop, everyLoop) ==
    /\ Len(old) = Len(new)
    /\ \A k \in 1..Len(old) :
          LET o == old[k]
              n == new[k]
          IN  /\ o.kind = n.kind
              /\ o.kind = "stmt" => SameUnderRemap(o.exprs, n.exprs, sub)
              /\ o.kind = "cond" =>
                    /\ SameUnderRemap(o.exprs, n.exprs, sub)
                    /\ RewrittenAsClaimed(o.body, n.body, sub,
                                          FALSE, everyLoop)
                         \/ (inLoop /\ ~everyLoop)
              /\ o.kind = "loop" =>
                    /\ n.variable = o.variable
                    /\ IF HasLiteralBounds(o) /\ ~IsNormalized(o)
                       THEN LET c == IF o.step = None THEN 1 ELSE o.step.num
                            IN  /\ n.start = IntLiteral(1)
                                /\ n.step = IntLiteral(1)
                                /\ HasValue(n.stop)
                                /\ IsFloorOf(n.stop.num - 1,
                                             o.stop.num - o.start.num, c)
                                /\ RewrittenAsClaimed(o.body, n.body,
                                     [sub EXCEPT ![o.variable] =
                                                     <<c, o.start.num>>],
                                     TRUE, everyLoop)
                       ELSE HasLiteralBounds(o) =>
                                RewrittenAsClaimed(o.body, n.body, sub,
                                                   TRUE, everyLoop)

\* C3: every loop with integer-literal bounds (a, b, c) that is not yet
\* normalised gets the bounds (1, floor((b - a) / c) + 1, 1) and every
\* occurrence of its variable i in its body becomes (i - 1) * c + a;
\* do i = 2, 20, 3 becomes (1, 7, 1) with i replaced by (i - 1) * 3 + 2.
C3_BoundsAndRemap ==
    calls = 1 =>
        /\ RewrittenAsClaimed(program0, program, IdentityRemap, FALSE, TRUE)
        /\ program0 \in ExamplePrograms =>
              /\ program[1].start = IntLiteral(1)
              /\ program[1].stop = IntLiteral(7)
              /\ program[1].step = IntLiteral(1)

\* What holds of C3: the same for the loops normalize_bounds reaches, the
\* outermost loops and the loops directly in the body of a loop reached.
C3_BoundsAndRemapOfReachedLoops ==
    calls = 1 =>
        /\ RewrittenAsClaimed(program0, program, IdentityRemap, FALSE, FALSE)
        /\ program0 \in ExamplePrograms =>
              /\ program[1].start = IntLiteral(1)
              /\ program[1].stop = IntLiteral(7)
              /\ program[1].step = IntLiteral(1)

\* the bounds of every loop, in order
LoopBounds(nodes) ==
    [k \in 1..Len(FindLoops(nodes)) |->
        LET loop == FindLoops(nodes)[k]
        IN  <<loop.id, loop.start, loop.stop, loop.step>>]

\* C4: normalize_bounds leaves a tree whose loops all have start and step 1
\* as it is, bounds and bodies, and for nests with integer-literal bounds a
\* second application leaves the loop bounds of the first unchanged.
C4_Idempotent ==
    /\ (calls >= 1 /\ \A loop \in LoopsOf(previous) : IsNormalized(loop))
          => program = previous
    /\ (calls >= 2 /\ AllLiteralBounds(program0))
          => LoopBounds(program) = LoopBounds(previous)

C4_Witness ==
    /\ calls = 2
    /\ program0 = NestedLoops(<<IntLiteral(0), IntLiteral(3), IntLiteral(2)>>,
                              <<IntLiteral(3), IntLiteral(0), IntLiteral(-2)>>)
    /\ previous # program0
    /\ \A loop \in LoopsOf(previous) : IsNormalized(loop)
    /\ program = previous

(***************************************************************************)
(* Row echelon form and the caller's matrix.                               *)
(***************************************************************************)
\* the column of the leading non-zero entry of a row, Len(row) + 1 for an
\* all-zero row
Leading(row) ==
    IF \A j \in 1..Len(row) : row[j] = 0 THEN Len(row) + 1
    ELSE CHOOSE j \in 1..Len(row) :
             row[j] # 0 /\ \A m \in 1..(j - 1) : row[m] = 0

IsZeroRow(row) == \A j \in 1..Len(row) : row[j] = 0

IsRowEchelonForm(M) ==
    \A k \in 1..(Len(M) - 1) :
        /\ IsZeroRow(M[k]) => IsZeroRow(M[k + 1])
        /\ ~IsZeroRow(M[k + 1]) => Leading(M[k + 1]) > Leading(M[k])

SameShape(M, N) ==
    /\ Len(M) = Len(N)
    /\ \A k \in 1..Len(M) : Len(M[k]) = Len(N[k])

\* C11: a matrix returned by row_echelon_form_under_gcd_condition has the
\* shape of the input and is in row echelon form: each leading non-zero
\* entry is strictly right of the one in the row above, and all-zero rows
\* are below every non-zero row.
C11_ReturnsRowEchelonForm ==
    ref.state = "returned" =>
        SameShape(ref.out, matrix0) /\ IsRowEchelonForm(ref.out)

C11_Witness ==
    /\ matrix0 = << <<0, 2, 2>>, <<2, 1, -2>> >>
    /\ ref.state = "returned"
    /\ ref.out # matrix0
    /\ IsRowEchelonForm(ref.out)

\* C12: after the call, returned or raised, the caller's matrix holds the
\* entries it held before the call, in the same row order.
C12_ArgumentUnchanged ==
    ref.state # "idle" => matrix = matrix0

(***************************************************************************)
(* back_substitution on integer arrays.  x = zeros_like(y) has the integer *)
(* type of y, so a quotient stored into x loses its fraction.              *)
(***************************************************************************)
\* numpy.dot of two vectors
RECURSIVE dot(_, _)
dot(a, b) ==
    IF a = <<>> THEN 0 ELSE Head(a) * Head(b) + dot(Tail(a), Tail(b))

\* zeros_like(y)
zeros_like(y) == [k \in 1..Len(y) |-> 0]

\* x[i] = num / den on an integer array: the true quotient, converted to an
\* integer by dropping its fraction
StoreQuotient(num, den) == TruncDiv(num, den)

\* an assertion that never fails
LastPivotIsZero_Never(R) == FALSE

\* "assert R[-1, -1] != 0" fails
LastPivotIsZero(R) == R[Len(R)][Len(R)] = 0

\* Rows i, i - 1, .., 1 of the loop (and x[-1] for i = len(y)).  A zero
\* R[i, i] makes the quotient inf or nan; storing that into the integer
\* array either raises (conversion_raises) or leaves an undefined entry.
RECURSIVE BackRows(_, _, _, _, _)
BackRows(R, y, i, x, conversion_raises) ==
    IF i = 0 THEN [state |-> "returned", out |-> x]
    ELSE LET n   == Len(y)
             num == y[i] - dot(SubSeq(R[i], i + 1, n), SubSeq(x, i + 1, n))
         IN  IF R[i][i] = 0
             THEN IF conversion_raises
                  THEN [state |-> IF num = 0 THEN "ValueError"
                                  ELSE "OverflowError",
                        out |-> <<>>]
                  ELSE [state |-> "returned with undefined entries",
                        out |-> <<>>]
             ELSE BackRows(R, y, i - 1,
                           [x EXCEPT ![i] = StoreQuotient(num, R[i][i])],
                           conversion_raises)

back_substitution(R, y, conversion_raises) ==
    IF LastPivotIsZero(R) THEN [state |-> "AssertionError", out |-> <<>>]
    ELSE BackRows(R, y, Len(y), zeros_like(y), conversion_raises)

(***************************************************************************)
(* Inputs and specification of back_substitution.                          *)
(***************************************************************************)
\* the orders of the square matrices
Orders == {1, 2}

UpperTriangular(n) ==
    {M \in [1..n -> [1..n -> Entries]] :
        \A i \in 1..n : \A j \in 1..(i - 1) : M[i][j] = 0}

\* R x = y of order 3, with exact and inexact quotients and a zero pivot
ExampleTriangularSystems ==
    { << << <<1, 2, 1>>, <<0, 1, -1>>, <<0, 0, 2>> >>, <<3, 1, 4>> >>,
      << << <<2, 1, 0>>, <<0, 2, 1>>, <<0, 0, 1>> >>, <<1, 1, 1>> >>,
      << << <<1, 1, 1>>, <<0, 0, 1>>, <<0, 0, 1>> >>, <<1, 2, 1>> >>,
      << << <<0, 1, 1>>, <<0, 1, 1>>, <<0, 0, 1>> >>, <<2, 2, 1>> >> }

InitBack ==
    /\ \/ \E n \in Orders :
             /\ matrix0 \in UpperTriangular(n)
             /\ right_hand_side \in [1..n -> Entries]
       \/ \E s \in ExampleTriangularSystems :
             matrix0 = s[1] /\ right_hand_side = s[2]
    /\ matrix = matrix0
    /\ ref = NotCalled
    /\ drop_zero_rows = FALSE
    /\ linalg = LinAlgNotCalled
    /\ AffineIdle
    /\ NormIdle
    /\ NestedIdle
    /\ IntervalIdle

CallBackSubstitution ==
    /\ linalg.state = "idle"
    /\ \E conversion_raises \in BOOLEAN :
          linalg' = back_substitution(matrix, right_hand_side,
                                      conversion_raises)
    /\ UNCHANGED <<matrix0, matrix, ref, dims, extras, affine,
                   program0, previous, program, calls, nested, frames,
                   right_hand_side, drop_zero_rows, operands, interval>>

NextBack == CallBackSubstitution

SpecBack == InitBack /\ [][NextBack]_vars

(***************************************************************************)
(* Back substitution: R x = y and the zero pivots.                         *)
(***************************************************************************)
NonZeroDiagonal(R) == \A i \in 1..Len(R) : R[i][i] # 0

Solves(R, x, y) ==
    /\ Len(x) = Len(y)
    /\ \A i \in 1..Len(R) : dot(R[i], x) = y[i]

\* C13: for an upper-triangular integer matrix R with non-zero diagonal
\* and an integer right-hand side y the call returns x with R x = y.
C13_BackSubstitutionSolves ==
    (linalg.state # "idle" /\ NonZeroDiagonal(matrix)) =>
        linalg.state = "returned" /\ Solves(matrix, linalg.out, right_hand_side)

\* What holds of C13: the call returns, and x solves R x = y whenever the
\* system has an integer solution whose quotients are all exact
C13_SolvesWhenQuotientsExact ==
    (linalg.state # "idle" /\ NonZeroDiagonal(matrix)) =>
        /\ linalg.state = "returned"
        /\ (\E x \in [1..Len(matrix) -> SolutionRange] :
               Solves(matrix, x, right_hand_side))
              => Solves(matrix, linalg.out, right_hand_side)

\* C14 as stated: a zero on the diagonal of R, the last entry or an earlier
\* one, makes the call fail with an assertion error, without a result.
C14_ZeroPivotAsserts ==
    (linalg.state # "idle" /\ ~NonZeroDiagonal(matrix)) =>
        linalg.state = "AssertionError" /\ linalg.out = <<>>

\* C14 amended: exactly a zero in the last diagonal entry makes the call
\* fail with an assertion error, without a result; a zero in an earlier
\* diagonal entry alone is not asserted.
C14_LastPivotAsserted ==
    linalg.state # "idle" =>
        LET n == Len(matrix)
        IN  /\ matrix[n][n] = 0
                  => linalg.state = "AssertionError" /\ linalg.out = <<>>
            /\ matrix[n][n] # 0 => linalg.state # "AssertionError"

C14_Witness ==
    /\ matrix = << <<1, 1>>, <<0, 0>> >>
    /\ right_hand_side = <<1, 2>>
    /\ linalg.state = "AssertionError"

(***************************************************************************)
(* is_independent_system and yield_one_d_systems.  A two-dimensional       *)
(* array argument is a sequence of rows; a yielded array is a record       *)
(* [shape, data], data holding its entries in row-major order.             *)
(***************************************************************************)
\* np_sum(matrix != 0, axis=1), for one row
CountNonZero(row) == Cardinality({j \in 1..Len(row) : row[j] # 0})

\* a test that also accepts all-zero rows
is_independent_system_AtMostOne(M) ==
    \A i \in 1..Len(M) : CountNonZero(M[i]) <= 1

\* np_all(np_sum(matrix != 0, axis=1) == 1)
is_independent_system(M) ==
    \A i \in 1..Len(M) : CountNonZero(M[i]) = 1

Array(shape, data) == [shape |-> shape, data |-> data]

\* row j of M.T: column j of M, a one-dimensional array
Column(M, j) == [i \in 1..Len(M) |-> M[i][j]]

\* np_all(hstack((A, b)) == 0): one truth value for the whole pair
AllZero(A, b) ==
    /\ \A k \in 1..Len(A) : A[k] = 0
    /\ \A k \in 1..Len(b) : b[k] = 0

\* A[mask].T for the one-dimensional A and a single truth value mask:
\* A[True] has the shape (1, n), A[False] the shape (0, n)
MaskedTransposed(A, mask) ==
    IF mask THEN Array(<<Len(A), 1>>, A) ELSE Array(<<Len(A), 0>>, <<>>)

\* A.T of a one-dimensional array is the array itself
Transposed1D(A) == Array(<<Len(A)>>, A)

Min2(a, b) == IF a <= b THEN a ELSE b

\* mask = ~np_all(hstack((A, b)) == 0)
KeepMask(A, b) == ~AllZero(A, b)

\* the pairs yielded, in order: zip stops with the shorter of matrix.T and
\* right_hand_side.T
yield_one_d_systems(M, rhs, drop) ==
    [j \in 1..Min2(NCols(M), NCols(rhs)) |->
        LET A == Column(M, j)
            b == Column(rhs, j)
        IN  IF drop
            THEN <<MaskedTransposed(A, KeepMask(A, b)),
                   MaskedTransposed(b, KeepMask(A, b))>>
            ELSE <<Transposed1D(A), Transposed1D(b)>>]

(***************************************************************************)
(* Inputs and specification of the one-dimensional systems.                *)
(***************************************************************************)
\* (rows, columns) of the coefficient matrices
OneDShapes == {<<1, 1>>, <<2, 1>>, <<3, 1>>, <<1, 2>>, <<2, 2>>}

\* entries of the right-hand sides: negative, zero, positive
Signs == {-1, 0, 1}

ColumnVectors(n) == [1..n -> [1..1 -> Signs]]

\* the matrices named in the documentation of the independence test, and a
\* system whose right-hand side has a column per variable
ExampleOneDSystems ==
    { << << <<1, 0>>, <<0, 1>> >>, << <<1>>, <<2>> >> >>,
      << << <<1, 1>>, <<0, 1>> >>, << <<1>>, <<2>> >> >>,
      << << <<1, 0>>, <<0, 0>> >>, << <<1, 0>>, <<0, 0>> >> >>,
      << << <<1, 0>>, <<0, 2>> >>, << <<1, 2>>, <<0, 1>> >> >> }

InitOneD ==
    /\ \/ \E s \in OneDShapes :
             /\ matrix0 \in MatricesOf(s)
             /\ right_hand_side \in ColumnVectors(s[1])
       \/ \E s \in ExampleOneDSystems :
             matrix0 = s[1] /\ right_hand_side = s[2]
    /\ matrix = matrix0
    /\ ref = NotCalled
    /\ drop_zero_rows \in BOOLEAN
    /\ linalg = LinAlgNotCalled
    /\ AffineIdle
    /\ NormIdle
    /\ NestedIdle
    /\ IntervalIdle

CallIsIndependentSystem ==
    /\ linalg.state = "idle"
    /\ linalg' = [state |-> "is_independent_system",
                  out |-> is_independent_system(matrix)]
    /\ UNCHANGED <<matrix0, matrix, ref, dims, extras, affine,
                   program0, previous, program, calls, nested, frames,
                   right_hand_side, drop_zero_rows, operands, interval>>

\* list(yield_one_d_systems(matrix, right_hand_side, drop_zero_rows))
CallYieldOneDSystems ==
    /\ linalg.state = "idle"
    /\ linalg' = [state |-> "yield_one_d_systems",
                  out |-> yield_one_d_systems(matrix, right_hand_side,
                                              drop_zero_rows)]
    /\ UNCHANGED <<matrix0, matrix, ref, dims, extras, affine,
                   program0, previous, program, calls, nested, frames,
                   right_hand_side, drop_zero_rows, operands, interval>>

NextIndependent == CallIsIndependentSystem

SpecIndependent == InitOneD /\ [][NextIndependent]_vars

NextOneD == CallYieldOneDSystems

SpecOneD == InitOneD /\ [][NextOneD]_vars

(***************************************************************************)
(* Independent systems and their one-dimensional problems.                 *)
(***************************************************************************)
ExactlyOneNonZero(row) ==
    \E j \in 1..Len(row) :
        row[j] # 0 /\ \A m \in 1..Len(row) : m # j => row[m] = 0

\* C15: is_independent_system returns true exactly when every row has
\* exactly one non-zero entry; [[1,0],[0,1]] is independent, [[1,1],[0,1]]
\* and a matrix with an all-zero row are not.
C15_IndependentIff ==
    linalg.state = "is_independent_system" =>
        /\ linalg.out <=> \A i \in 1..Len(matrix) : ExactlyOneNonZero(matrix[i])
        /\ matrix = << <<1, 0>>, <<0, 1>> >> => linalg.out
        /\ matrix = << <<1, 1>>, <<0, 1>> >> => ~linalg.out
        /\ (\E i \in 1..Len(matrix) : IsZeroRow(matrix[i])) => ~linalg.out

C15_Witness ==
    /\ linalg.state = "is_independent_system"
    /\ matrix = << <<1, 0>>, <<0, 0>> >>
    /\ linalg.out = FALSE

IsColumnVector(rhs) == \A i \in 1..Len(rhs) : Len(rhs[i]) = 1

\* C16: for a matrix with d columns and a column vector as right-hand side
\* exactly d pairs are yielded, the j-th holding column j of the matrix
\* with the right-hand side (all of their rows when no row is dropped).
C16_OnePairPerColumn ==
    (linalg.state = "yield_one_d_systems" /\ IsColumnVector(right_hand_side))
        => /\ Len(linalg.out) = NCols(matrix)
           /\ ~drop_zero_rows =>
                 \A j \in 1..Len(linalg.out) :
                     /\ linalg.out[j][1].data = Column(matrix, j)
                     /\ linalg.out[j][2].data = Column(right_hand_side, 1)

\* the entries of v at the rows where the coefficient or the right-hand
\* side is not zero, in order
RECURSIVE NonZeroRowsOf(_, _, _)
NonZeroRowsOf(v, A, b) ==
    IF v = <<>> THEN <<>>
    ELSE (IF Head(A) # 0 \/ Head(b) # 0 THEN <<Head(v)>> ELSE <<>>)
             \o NonZeroRowsOf(Tail(v), Tail(A), Tail(b))

\* C17: with drop_zero_rows every yielded pair holds exactly the rows whose
\* coefficient or right-hand side entry is not zero, in order; without it
\* every row.
C17_DropsZeroRows ==
    linalg.state = "yield_one_d_systems" =>
        \A j \in 1..Len(linalg.out) :
            LET A == Column(matrix, j)
                b == Column(right_hand_side, j)
            IN  IF drop_zero_rows
                THEN /\ linalg.out[j][1].data = NonZeroRowsOf(A, A, b)
                     /\ linalg.out[j][2].data = NonZeroRowsOf(b, A, b)
                ELSE /\ linalg.out[j][1].data = A
                     /\ linalg.out[j][2].data = b

(***************************************************************************)
(* bounds_of_one_d_system on integer arrays of the shape (n, 1).  The      *)
(* lower bounds are stored in an array of the integer type of the          *)
(* right-hand side; the upper bounds are the quotients themselves, exact   *)
(* fractions num / den with den > 0.                                       *)
(***************************************************************************)
\* the sign of a coefficient: mask is "sign >= 0", zero_mask is "sign = 0"
SignOf(c) == IF c > 0 THEN 1 ELSE IF c = 0 THEN 0 ELSE -1

\* array[selection], for the rows whose coefficient has the given sign
RECURSIVE RowsWhere(_, _, _)
RowsWhere(rows, single_column_matrix, sign) ==
    IF rows = <<>> THEN <<>>
    ELSE (IF SignOf(Head(single_column_matrix)[1]) = sign
          THEN <<Head(rows)[1]>> ELSE <<>>)
             \o RowsWhere(Tail(rows), Tail(single_column_matrix), sign)

\* x / y of numpy: the exact quotient
TrueQuotient(num, den) == IF den < 0 THEN Rat(-num, -den) ELSE Rat(num, den)

RatLess(a, b) == a.num * b.den < b.num * a.den

\* np_unique of integers: ascending, without duplicates
RECURSIVE np_unique(_)
np_unique(S) ==
    IF S = {} THEN <<>>
    ELSE LET m == CHOOSE v \in S : \A w \in S : v <= w
         IN  <<m>> \o np_unique(S \ {m})

\* np_unique of quotients
RECURSIVE np_unique_quotients(_)
np_unique_quotients(S) ==
    IF S = {} THEN <<>>
    ELSE LET m == CHOOSE v \in S : \A w \in S : ~RatLess(w, v)
         IN  <<m>> \o np_unique_quotients(S \ {m})

\* lower_bounds[count:] = right_hand_side[logical_and(mask, zero_mask)]
ZeroCoefficientBounds(single_column_matrix, rhs) ==
    RowsWhere(rhs, single_column_matrix, 0)

bounds_of_one_d_system(single_column_matrix, rhs) ==
    LET positive_rhs == RowsWhere(rhs, single_column_matrix, 1)
        positive_col == RowsWhere(single_column_matrix, single_column_matrix, 1)
        negative_rhs == RowsWhere(rhs, single_column_matrix, -1)
        negative_col == RowsWhere(single_column_matrix, single_column_matrix, -1)
        lower_bounds ==
            [k \in 1..Len(positive_rhs) |->
                StoreQuotient(positive_rhs[k], positive_col[k])]
              \o ZeroCoefficientBounds(single_column_matrix, rhs)
        upper_bounds ==
            [k \in 1..Len(negative_rhs) |->
                TrueQuotient(negative_rhs[k], negative_col[k])]
    IN  <<np_unique(SeqToSet(lower_bounds)),
          np_unique_quotients(SeqToSet(upper_bounds))>>

(***************************************************************************)
(* Inputs and specification of bounds_of_one_d_system.                     *)
(***************************************************************************)
\* numbers of rows with every entry drawn from Entries
FullColumnLengths == {1, 2}
\* numbers of rows with the right-hand side drawn from Signs
SignColumnLengths == {3}

InitBounds ==
    /\ \/ \E n \in FullColumnLengths :
             /\ matrix0 \in MatricesOf(<<n, 1>>)
             /\ right_hand_side \in MatricesOf(<<n, 1>>)
       \/ \E n \in SignColumnLengths :
             /\ matrix0 \in MatricesOf(<<n, 1>>)
             /\ right_hand_side \in ColumnVectors(n)
    /\ matrix = matrix0
    /\ ref = NotCalled
    /\ drop_zero_rows = FALSE
    /\ linalg = LinAlgNotCalled
    /\ AffineIdle
    /\ NormIdle
    /\ NestedIdle
    /\ IntervalIdle

CallBoundsOfOneDSystem ==
    /\ linalg.state = "idle"
    /\ linalg' = [state |-> "returned",
                  out |-> bounds_of_one_d_system(matrix, right_hand_side)]
    /\ UNCHANGED <<matrix0, matrix, ref, dims, extras, affine,
                   program0, previous, program, calls, nested, frames,
                   right_hand_side, drop_zero_rows, operands, interval>>

NextBounds == CallBoundsOfOneDSystem

SpecBounds == InitBounds /\ [][NextBounds]_vars

(***************************************************************************)
(* Soundness of the bounds of column * x >= rhs.                           *)
(***************************************************************************)
\* x satisfies every row of single_column_matrix * x >= rhs
SatisfiesRows(v, single_column_matrix, rhs) ==
    \A k \in 1..Len(rhs) : single_column_matrix[k][1] * v >= rhs[k][1]

WithinBounds(v, bounds) ==
    /\ \A k \in 1..Len(bounds[1]) : v >= bounds[1][k]
    /\ \A k \in 1..Len(bounds[2]) : v * bounds[2][k].den <= bounds[2][k].num

SortedWithoutDuplicates(bounds) ==
    /\ \A k \in 1..(Len(bounds[1]) - 1) : bounds[1][k] < bounds[1][k + 1]
    /\ \A k \in 1..(Len(bounds[2]) - 1) :
          RatLess(bounds[2][k], bounds[2][k + 1])

\* C18: every integer x that satisfies every row of column * x >= rhs lies
\* at or above every lower bound and at or below every upper bound, also
\* when some coefficients are zero; both bound sets are ascending without
\* duplicates.
C18_BoundsSound ==
    linalg.state = "returned" =>
        /\ \A v \in SolutionRange :
              SatisfiesRows(v, matrix, right_hand_side)
                  => WithinBounds(v, linalg.out)
        /\ SortedWithoutDuplicates(linalg.out)

\* What holds of C18: the same for columns without a zero coefficient, and
\* the order of the bounds for every column
C18_BoundsSoundWithoutZeroCoefficients ==
    linalg.state = "returned" =>
        /\ (\A k \in 1..Len(matrix) : matrix[k][1] # 0) =>
              \A v \in SolutionRange :
                  SatisfiesRows(v, matrix, right_hand_side)
                      => WithinBounds(v, linalg.out)
        /\ SortedWithoutDuplicates(linalg.out)

(***************************************************************************)
(* Interval arithmetic.  An operand is a record [kind, start, stop]: a     *)
(* RangeIndex((start, stop)), or a scalar (start = stop = its value).      *)
(***************************************************************************)
RangeIndexOf(start, stop) ==
    [kind |-> "RangeIndex", start |-> start, stop |-> stop]
Scalar(value) == [kind |-> "scalar", start |-> value, stop |-> value]

IsRangeIndex(v) == v.kind = "RangeIndex"

\* op(a, b) for the operations of the tests: the value, or undefined when
\* Python raises ZeroDivisionError
Defined(value) == [defined |-> TRUE, value |-> value]
Undefined == [defined |-> FALSE, value |-> 0]

Apply(op, a, b) ==
    CASE op = "+"  -> Defined(a + b)
      [] op = "-"  -> Defined(a - b)
      [] op = "*"  -> Defined(a * b)
      [] op = "//" -> IF b = 0 THEN Undefined ELSE Defined(FloorDiv(a, b))
      [] op = "max" -> Defined(IF a >= b THEN a ELSE b)
      [] op = "min" -> Defined(IF a <= b THEN a ELSE b)
      [] OTHER     -> Defined(a * 2 + b * 3)

\* a maximum that takes the last corner
TupleMax_Last(tmp) == tmp[Len(tmp)].value

\* min(tmp), max(tmp)
TupleMin(tmp) ==
    CHOOSE m \in {tmp[k].value : k \in 1..Len(tmp)} :
        \A k \in 1..Len(tmp) : m <= tmp[k].value
TupleMax(tmp) ==
    CHOOSE m \in {tmp[k].value : k \in 1..Len(tmp)} :
        \A k \in 1..Len(tmp) : m >= tmp[k].value

IntervalRaised(fn, err) == [state |-> err, fn |-> fn, out |-> NoInterval]

\* "tmp = (...); return RangeIndex((min(tmp), max(tmp)))": building tmp
\* raises when op raises at one of the corners
ResultOf(fn, tmp) ==
    IF \E k \in 1..Len(tmp) : ~tmp[k].defined
    THEN IntervalRaised(fn, "ZeroDivisionError")
    ELSE [state |-> "returned", fn |-> fn,
          out |-> RangeIndexOf(TupleMin(tmp), TupleMax(tmp))]

\* corners taken on one diagonal only
FourCorners_Diagonal(op, x, y) ==
    <<Apply(op, x.start, y.start), Apply(op, x.stop, y.stop)>>

\* (op(x_1, y_1), op(x_1, y_2), op(x_2, y_1), op(x_2, y_2))
FourCorners(op, x, y) ==
    <<Apply(op, x.start, y.start), Apply(op, x.start, y.stop),
      Apply(op, x.stop, y.start), Apply(op, x.stop, y.stop)>>

_binary_operation_on_range_index(op, x, y) ==
    ResultOf("binary_operation", FourCorners(op, x, y))

\* x.start of a scalar raises AttributeError
_binary_operation_on_range_index_and_scalar(op, x, y) ==
    IF ~IsRangeIndex(x) THEN IntervalRaised("binary_operation", "AttributeError")
    ELSE ResultOf("binary_operation",
                  <<Apply(op, x.start, y.start), Apply(op, x.stop, y.start)>>)

_binary_operation_on_scalar_and_range_index(op, x, y) ==
    IF ~IsRangeIndex(y) THEN IntervalRaised("binary_operation", "AttributeError")
    ELSE ResultOf("binary_operation",
                  <<Apply(op, x.start, y.start), Apply(op, x.start, y.stop)>>)

\* loki.expression.interval_arithmetics.binary_operation
binary_operation(op, x, y) ==
    IF IsRangeIndex(x) /\ IsRangeIndex(y)
    THEN _binary_operation_on_range_index(op, x, y)
    ELSE IF ~IsRangeIndex(x)
    THEN _binary_operation_on_scalar_and_range_index(op, x, y)
    ELSE _binary_operation_on_range_index_and_scalar(op, x, y)

\* loki.analyse.interval_arithmetics.binary_operation: _get_bounds reads
\* start and stop of both operands; the result is x.__class__((start, stop))
analyse_binary_operation(op, x, y) ==
    IF ~IsRangeIndex(x) \/ ~IsRangeIndex(y)
    THEN IntervalRaised("analyse.binary_operation", "AttributeError")
    ELSE ResultOf("analyse.binary_operation", FourCorners(op, x, y))

(***************************************************************************)
(* Inputs and specification of the interval operations.                    *)
(***************************************************************************)
MaxBound == 2

BoundValues == (-MaxBound)..MaxBound

Operations == {"+", "-", "*", "//", "max", "min", "custom"}

\* every RangeIndex over the values, also with start > stop, and every
\* scalar
OperandValues ==
    {RangeIndexOf(a, b) : a \in BoundValues, b \in BoundValues}
        \cup {Scalar(v) : v \in BoundValues}

\* operands of test_binary_operation, test_custom_binary_operation and
\* test_operations_on_scalar_and_range_index
ExampleOperands ==
    { [op |-> "//", x |-> RangeIndexOf(3, 8), y |-> RangeIndexOf(2, 2)],
      [op |-> "-", x |-> RangeIndexOf(5, 7), y |-> RangeIndexOf(2, 3)],
      [op |-> "custom", x |-> RangeIndexOf(1, 2), y |-> RangeIndexOf(3, 4)],
      [op |-> "*", x |-> RangeIndexOf(1, 3), y |-> Scalar(2)],
      [op |-> "*", x |-> Scalar(2), y |-> RangeIndexOf(1, 3)] }

InitInterval ==
    /\ \/ operands \in [op : Operations, x : OperandValues, y : OperandValues]
       \/ operands \in ExampleOperands
    /\ interval = IntervalNotCalled
    /\ RefIdle
    /\ AffineIdle
    /\ NormIdle
    /\ NestedIdle
    /\ LinAlgIdle

CallBinaryOperation ==
    /\ interval.state = "idle"
    /\ interval' = binary_operation(operands.op, operands.x, operands.y)
    /\ UNCHANGED <<matrix0, matrix, ref, dims, extras, affine,
                   program0, previous, program, calls, nested, frames,
                   right_hand_side, drop_zero_rows, linalg, operands>>

CallAnalyseBinaryOperation ==
    /\ interval.state = "idle"
    /\ interval' = analyse_binary_operation(operands.op, operands.x,
                                            operands.y)
    /\ UNCHANGED <<matrix0, matrix, ref, dims, extras, affine,
                   program0, previous, program, calls, nested, frames,
                   right_hand_side, drop_zero_rows, linalg, operands>>

NextInterval == CallBinaryOperation \/ CallAnalyseBinaryOperation

SpecInterval == InitInterval /\ [][NextInterval]_vars

(***************************************************************************)
(* Corners and soundness of binary_operation.                              *)
(***************************************************************************)
SetMin(S) == CHOOSE m \in S : \A w \in S : m <= w
SetMax(S) == CHOOSE m \in S : \A w \in S : m >= w

\* the values of op at the combinations of the bounds of x and y (a scalar
\* has one bound), the operands in the order given
CornerValues(op, x, y) ==
    {Apply(op, a, b).value : a \in {x.start, x.stop}, b \in {y.start, y.stop}}

CornersDefined(op, x, y) ==
    \A a \in {x.start, x.stop} : \A b \in {y.start, y.stop} :
        Apply(op, a, b).defined

WellFormed(v) == IsRangeIndex(v) /\ v.start <= v.stop

Monotone == {"+", "-", "*", "//"}

\* C20 as stated: for op in {+, -, *, //} and intervals x, y with
\* start <= stop, op(x0, y0) is defined and lies within the returned
\* interval for all integers x0 in x and y0 in y.
C20_SoundForEveryInterval ==
    LET op == operands.op
        x  == operands.x
        y  == operands.y
    IN  (/\ interval.fn = "binary_operation"
         /\ op \in Monotone /\ WellFormed(x) /\ WellFormed(y))
           => /\ interval.state = "returned"
              /\ \A x0 \in x.start..x.stop : \A y0 \in y.start..y.stop :
                    /\ Apply(op, x0, y0).defined
                    /\ interval.out.start <= Apply(op, x0, y0).value
                    /\ Apply(op, x0, y0).value <= interval.out.stop

\* C20 amended: the same for +, - and * and every pair of intervals, and
\* for // when the interval y does not contain 0.
C20_SoundWhenDefined ==
    LET op == operands.op
        x  == operands.x
        y  == operands.y
    IN  (/\ interval.fn = "binary_operation"
         /\ op \in Monotone /\ WellFormed(x) /\ WellFormed(y)
         /\ op = "//" => ~(y.start <= 0 /\ 0 <= y.stop))
           => /\ interval.state = "returned"
              /\ \A x0 \in x.start..x.stop : \A y0 \in y.start..y.stop :
                    /\ Apply(op, x0, y0).defined
                    /\ interval.out.start <= Apply(op, x0, y0).value
                    /\ Apply(op, x0, y0).value <= interval.out.stop

C20_Witness ==
    /\ interval.fn = "binary_operation"
    /\ operands = [op |-> "//", x |-> RangeIndexOf(-2, 2),
                   y |-> RangeIndexOf(-2, -1)]
    /\ interval.state = "returned"
    /\ interval.out = RangeIndexOf(-2, 2)

(***************************************************************************)
(* The dedicated operations add, sub and mul.                              *)
(***************************************************************************)
IntervalReturned(fn, start, stop) ==
    [state |-> "returned", fn |-> fn, out |-> RangeIndexOf(start, stop)]

_add_on_range_index(x, y) ==
    IntervalReturned("add", x.start + y.start, x.stop + y.stop)

\* x.start of a scalar raises AttributeError
_add_on_range_index_and_scalar(x, y) ==
    IF ~IsRangeIndex(x) THEN IntervalRaised("add", "AttributeError")
    ELSE IntervalReturned("add", x.start + y.start, x.stop + y.start)

add(x, y) ==
    IF IsRangeIndex(x) /\ IsRangeIndex(y) THEN _add_on_range_index(x, y)
    ELSE IF ~IsRangeIndex(x) THEN _add_on_range_index_and_scalar(y, x)
    ELSE _add_on_range_index_and_scalar(x, y)

\* a difference of the bounds taken in the same position
_sub_on_range_index_SamePosition(x, y) ==
    IntervalReturned("sub", x.start - y.start, x.stop - y.stop)

_sub_on_range_index(x, y) ==
    IntervalReturned("sub", x.start - y.stop, x.stop - y.start)

_sub_on_range_index_and_scalar(x, y) ==
    IntervalReturned("sub", x.start - y.start, x.stop - y.start)

_sub_on_scalar_and_range_index(x, y) ==
    IF ~IsRangeIndex(y) THEN IntervalRaised("sub", "AttributeError")
    ELSE IntervalReturned("sub", x.start - y.stop, x.start - y.start)

sub(x, y) ==
    IF IsRangeIndex(x) /\ IsRangeIndex(y) THEN _sub_on_range_index(x, y)
    ELSE IF ~IsRangeIndex(x) THEN _sub_on_scalar_and_range_index(x, y)
    ELSE _sub_on_range_index_and_scalar(x, y)

\* the products of the bounds in the same position, in that order
_mul_on_range_index_SamePosition(x, y) ==
    IntervalReturned("mul", x.start * y.start, x.stop * y.stop)

_mul_on_range_index(x, y) ==
    LET tmp == <<Defined(x.start * y.start), Defined(x.start * y.stop),
                 Defined(x.stop * y.start), Defined(x.stop * y.stop)>>
    IN  IntervalReturned("mul", TupleMin(tmp), TupleMax(tmp))

_mul_on_range_index_and_scalar(x, y) ==
    IF ~IsRangeIndex(x) THEN IntervalRaised("mul", "AttributeError")
    ELSE LET tmp == <<Defined(x.start * y.start), Defined(x.stop * y.start)>>
         IN  IntervalReturned("mul", TupleMin(tmp), TupleMax(tmp))

mul(x, y) ==
    IF IsRangeIndex(x) /\ IsRangeIndex(y) THEN _mul_on_range_index(x, y)
    ELSE IF ~IsRangeIndex(x) THEN _mul_on_range_index_and_scalar(y, x)
    ELSE _mul_on_range_index_and_scalar(x, y)

\* loki.analyse.interval_arithmetics: add, sub and mul read start and stop
\* of both operands
analyse_add(x, y) ==
    IF ~IsRangeIndex(x) \/ ~IsRangeIndex(y)
    THEN IntervalRaised("analyse.add", "AttributeError")
    ELSE IntervalReturned("analyse.add", x.start + y.start, x.stop + y.stop)

analyse_sub(x, y) ==
    IF ~IsRangeIndex(x) \/ ~IsRangeIndex(y)
    THEN IntervalRaised("analyse.sub", "AttributeError")
    ELSE IntervalReturned("analyse.sub", x.start - y.stop, x.stop - y.start)

analyse_mul(x, y) ==
    IF ~IsRangeIndex(x) \/ ~IsRangeIndex(y)
    THEN IntervalRaised("analyse.mul", "AttributeError")
    ELSE LET tmp == <<Defined(x.start * y.start), Defined(x.start * y.stop),
                      Defined(x.stop * y.start), Defined(x.stop * y.stop)>>
         IN  IntervalReturned("analyse.mul", TupleMin(tmp), TupleMax(tmp))

\* operands.op names the operation the caller wants: the generic function
\* takes it as its argument, a dedicated one is called for its own operation
CallDedicated(op, result) ==
    /\ interval.state = "idle"
    /\ operands.op = op
    /\ interval' = result
    /\ UNCHANGED <<matrix0, matrix, ref, dims, extras, affine,
                   program0, previous, program, calls, nested, frames,
                   right_hand_side, drop_zero_rows, linalg, operands>>

CallAdd == CallDedicated("+", add(operands.x, operands.y))
CallSub == CallDedicated("-", sub(operands.x, operands.y))
CallMul == CallDedicated("*", mul(operands.x, operands.y))
CallAnalyseAdd == CallDedicated("+", analyse_add(operands.x, operands.y))
CallAnalyseSub == CallDedicated("-", analyse_sub(operands.x, operands.y))
CallAnalyseMul == CallDedicated("*", analyse_mul(operands.x, operands.y))

NextOperations ==
    \/ CallBinaryOperation
    \/ CallAnalyseBinaryOperation
    \/ CallAdd
    \/ CallSub
    \/ CallMul
    \/ CallAnalyseAdd
    \/ CallAnalyseSub
    \/ CallAnalyseMul

SpecOperations == InitInterval /\ [][NextOperations]_vars

(***************************************************************************)
(* The dedicated operations against the generic one.                       *)
(***************************************************************************)
\* a RangeIndex with start <= stop, or a scalar
Ordered(v) == v.start <= v.stop

\* C21: for operands with start <= stop, at least one of them a
\* RangeIndex, add, sub and mul return the interval binary_operation
\* returns with +, - and *: (x1 + y1, x2 + y2), (x1 - y2, x2 - y1), and the
\* min and max of the cross products.
C21_DedicatedAgreeWithGeneric ==
    LET op == operands.op
        x  == operands.x
        y  == operands.y
        generic == binary_operation(op, x, y)
    IN  /\ (/\ interval.fn \in {"add", "sub", "mul"}
            /\ Ordered(x) /\ Ordered(y)
            /\ IsRangeIndex(x) \/ IsRangeIndex(y))
              => /\ interval.state = "returned"
                 /\ generic.state = "returned"
                 /\ interval.out = generic.out
                 /\ interval.fn = "add" =>
                      interval.out = RangeIndexOf(x.start + y.start,
                                                  x.stop + y.stop)
                 /\ interval.fn = "sub" =>
                      interval.out = RangeIndexOf(x.start - y.stop,
                                                  x.stop - y.start)
                 /\ interval.fn = "mul" =>
                      interval.out =
                          RangeIndexOf(SetMin(CornerValues("*", x, y)),
                                       SetMax(CornerValues("*", x, y)))
        /\ (/\ interval.fn \in {"analyse.add", "analyse.sub", "analyse.mul"}
            /\ Ordered(x) /\ Ordered(y)
            /\ IsRangeIndex(x) /\ IsRangeIndex(y))
              => /\ interval.state = "returned"
                 /\ interval.out = generic.out

C21_Witness ==
    /\ interval.fn = "sub"
    /\ operands.x = Scalar(2)
    /\ operands.y = RangeIndexOf(-1, 2)
    /\ interval.out = RangeIndexOf(0, 3)

\* C30: binary_operation and mul return an interval with start <= stop for
\* all operands, also operands with start > stop; add and sub return one
\* with start <= stop whenever both operands have start <= stop.
C30_ResultsWellFormed ==
    LET op == operands.op
        x  == operands.x
        y  == operands.y
        either == IsRangeIndex(x) \/ IsRangeIndex(y)
        both == IsRangeIndex(x) /\ IsRangeIndex(y)
    IN  /\ interval.state = "returned"
            /\ interval.fn \in {"binary_operation", "mul",
                                "analyse.binary_operation", "analyse.mul"}
              => interval.out.start <= interval.out.stop
        /\ interval.state = "returned"
            /\ interval.fn \in {"add", "sub", "analyse.add", "analyse.sub"}
            /\ Ordered(x) /\ Ordered(y)
              => interval.out.start <= interval.out.stop
        /\ interval.fn \in {"binary_operation", "mul", "add", "sub"}
            /\ either /\ CornersDefined(op, x, y)
              => interval.state = "returned"
        /\ interval.fn \in {"analyse.binary_operation", "analyse.mul",
                            "analyse.add", "analyse.sub"}
            /\ both /\ CornersDefined(op, x, y)
              => interval.state = "returned"

C30_Witness ==
    /\ interval.fn = "mul"
    /\ operands.x = RangeIndexOf(2, -1)
    /\ operands.y = RangeIndexOf(1, -2)
    /\ interval.out = RangeIndexOf(-4, 2)

(***************************************************************************)
(* get_nested_loops: the generator is run to its end by each call.         *)
(***************************************************************************)
NestedPrograms == Programs

\* the loops and conditionals of a tree: the nodes get_nested_loops is
\* called with
RECURSIVE NodesWithBody(_)
NodesWithBody(nodes) ==
    IF nodes = <<>> THEN {}
    ELSE (IF Head(nodes).kind = "stmt" THEN {} ELSE {Head(nodes)})
            \cup NodesWithBody(Head(nodes).body)
            \cup NodesWithBody(Tail(nodes))

InitNested ==
    /\ program0 \in NestedPrograms
    /\ previous = program0
    /\ program = program0
    /\ calls = 0
    /\ \E node \in NodesWithBody(program0) :
          nested = [arg |-> <<node>>, yields |-> <<>>]
    /\ frames = 0
    /\ RefIdle
    /\ AffineIdle
    /\ LinAlgIdle
    /\ IntervalIdle

\* list(get_nested_loops(loop))
CallGetNestedLoops ==
    /\ Len(nested.yields) < MaxCalls
    /\ nested' = [nested EXCEPT
                    !.yields = Append(@, get_nested_loops(nested.arg[1]))]
    /\ UNCHANGED <<matrix0, matrix, ref, dims, extras, affine,
                   program0, previous, program, calls,
                   right_hand_side, drop_zero_rows, linalg, operands,
                   interval, frames>>

NextNested == CallGetNestedLoops

SpecNested == InitNested /\ [][NextNested]_vars

\* the loops that stand in the body of the node
LoopsOfBody(node) ==
    {node.body[k] : k \in {m \in 1..Len(node.body) : IsLoop(node.body[m])}}

\* the loops reached from the node through bodies of loops
RECURSIVE ReachedThroughLoopBodies(_)
ReachedThroughLoopBodies(node) ==
    LoopsOfBody(node)
        \cup UNION {ReachedThroughLoopBodies(l) : l \in LoopsOfBody(node)}

\* the loops anywhere inside the loop
ContainedIn(loop) == SeqToSet(FindLoops(loop.body))

\* C22: get_nested_loops yields every loop reached from its argument
\* through loop bodies exactly once, a loop before the loops it contains,
\* the argument first when it is a loop; a second call yields the same.
C22_OuterToInnerOnce ==
    \A c \in 1..Len(nested.yields) :
        LET arg == nested.arg[1]
            seq == nested.yields[c]
            expected == ReachedThroughLoopBodies(arg)
                            \cup (IF IsLoop(arg) THEN {arg} ELSE {})
        IN  /\ SeqToSet(seq) = expected
            /\ Len(seq) = Cardinality(expected)
            /\ \A i \in 1..Len(seq) : \A j \in 1..Len(seq) :
                  seq[j] \in ContainedIn(seq[i]) => i < j
            /\ IsLoop(arg) => seq[1] = arg
            /\ seq = nested.yields[1]

C22_Witness ==
    /\ Len(nested.yields) = 2
    /\ Len(nested.yields[2]) = 4
    /\ nested.arg[1].id = 1
    /\ nested.yields[2][3].id = 3

(***************************************************************************)
(* Composition of the rewritten loops of a nest.                           *)
(***************************************************************************)
\* the remap of the variable of a loop: i stands for (i - 1) * c + a, for a
\* loop that is not yet normalised
RemapOf(loop) ==
    LET c == IF loop.step = None THEN IntLiteral(1) ELSE loop.step
    IN  IF loop.start = IntLiteral(1) /\ c = IntLiteral(1) THEN EmptyMap
        ELSE MapOf(loop.variable,
                   _simplify(Sum(Product(Minus(Var(loop.variable),
                                               IntLiteral(1)), c),
                                 loop.start)))

\* the nest of a loop rewritten from the inside: each loop that stands in
\* the body is rewritten first, then the remap of the loop is applied to
\* the body that holds the rewritten loops
RECURSIVE ComposedOutward(_)
ComposedOutward(loop) ==
    LET c == IF loop.step = None THEN IntLiteral(1) ELSE loop.step
        inner == [k \in 1..Len(loop.body) |->
                    IF IsLoop(loop.body[k]) THEN ComposedOutward(loop.body[k])
                    ELSE loop.body[k]]
        body == SubstituteExpressions(RemapOf(loop), inner)
    IN  IF RemapOf(loop).empty THEN [loop EXCEPT !.body = body]
        ELSE [loop EXCEPT !.start = IntLiteral(1),
                          !.stop = UpperBound(loop.start, loop.stop, c),
                          !.step = IntLiteral(1),
                          !.body = body]

\* C23: each nest is rewritten innermost first and composed outward: the
\* body of a rewritten loop holds the rewritten loops of its body, never
\* the original ones, and the remap of the loop is applied to them, to
\* their bounds and to the remap expressions in their bodies.
C23_ComposedOutward ==
    calls >= 1 =>
        LET before == FindLoopsGreedy(previous)
            after  == FindLoopsGreedy(program)
        IN  /\ Len(after) = Len(before)
            /\ \A k \in 1..Len(before) :
                  after[k] = ComposedOutward(before[k])

C23_Witness ==
    /\ calls = 1
    /\ program0 = TriangularLoops(
                      <<IntLiteral(0), IntLiteral(3), IntLiteral(2)>>,
                      <<IntLiteral(1), IntLiteral(2), IntLiteral(1)>>)
    /\ program[1].body[1].start = IntLiteral(1)
    /\ program[1].body[1].stop # previous[1].body[1].stop
    /\ program[1].body[1].body # previous[1].body[1].body

(***************************************************************************)
(* The two routes to the new upper bound.                                  *)
(***************************************************************************)
\* an expression x / y + 1 with an ordinary division
IsQuotientPlusOne(e) ==
    /\ e.t = "sum"
    /\ e.args[1].t = "quot"
    /\ e.args[2] = IntLiteral(1)

\* The new bounds of the loops of old in new, for every loop that is not
\* yet normalised; remap is the remap of the enclosing loops, under which
\* the original bounds are read.
RECURSIVE StopsAsClaimed(_, _, _)
StopsAsClaimed(old, new, remap) ==
    /\ Len(old) = Len(new)
    /\ \A k \in 1..Len(old) :
          LET o == old[k]
              n == new[k]
              step == IF o.step = None THEN IntLiteral(1) ELSE o.step
          IN  /\ (IsLoop(o) /\ IsNormalized(o)) =>
                    /\ IsLoop(n)
                    /\ StopsAsClaimed(o.body, n.body, remap)
              /\ (IsLoop(o) /\ ~IsNormalized(o)) =>
                /\ IsLoop(n)
                /\ n.start = IntLiteral(1)
                /\ n.step = IntLiteral(1)
                /\ HasLiteralBounds(o) <=> HasValue(n.stop)
                /\ HasLiteralBounds(o) =>
                      /\ IsFloorOf(n.stop.num - 1,
                                   o.stop.num - o.start.num, step.num)
                      /\ StopsAsClaimed(o.body, n.body,
                             [remap EXCEPT ![o.variable] =
                                             <<step.num, o.start.num>>])
                /\ ~HasLiteralBounds(o) =>
                      /\ IsQuotientPlusOne(n.stop)
                      /\ \A env \in TestEnvs :
                            LET a == Eval(o.start, Remapped(env, remap))
                                b == Eval(o.stop, Remapped(env, remap))
                                c == Eval(step, Remapped(env, remap))
                            IN  (c # 0 /\ Divides(c, b - a)) =>
                                   Eval(n.stop, env) = FloorDiv(b - a, c) + 1

\* C24: the floor-division route is taken exactly when start, stop and
\* step are integer literals; otherwise the loop still gets start 1 and
\* step 1 and the stop (stop - start) / step + 1 with an ordinary division,
\* equal to the floor-division result when step divides stop - start.
C24_RoutesToUpperBound ==
    calls >= 1 => StopsAsClaimed(previous, program, IdentityRemap)

C24_Witness ==
    /\ calls = 1
    /\ program0 = SymbolicLoops(
                      <<IntLiteral(0), IntLiteral(3), IntLiteral(2)>>,
                      <<IntLiteral(2), IntLiteral(3), None>>, 2)
    /\ program[1].stop = IntLiteral(2)
    /\ IsQuotientPlusOne(program[1].body[1].stop)
    /\ program[1].body[1].start = IntLiteral(1)

(***************************************************************************)
(* What normalize_bounds leaves alone.                                     *)
(***************************************************************************)
\* the tree with every outermost loop cut out: the nodes that are neither
\* the root of a nest nor inside one, each at its position
RECURSIVE OutsideNests(_)
OutsideNests(nodes) ==
    [k \in 1..Len(nodes) |->
        IF IsLoop(nodes[k]) THEN Statement(<<>>)
        ELSE [nodes[k] EXCEPT !.body = OutsideNests(@)]]

\* C25: normalize_bounds rewrites only the nests: every node that is
\* neither the root of a nest nor inside one is unchanged and at the same
\* position in the result, and the tree passed in is not modified.
C25_OnlyNestsRewritten ==
    /\ calls >= 1 => OutsideNests(program) = OutsideNests(previous)
    /\ calls = 1 => previous = program0

C25_Witness ==
    /\ calls = 1
    /\ program0 = TwoNests(<<IntLiteral(0), IntLiteral(3), IntLiteral(2)>>,
                           <<IntLiteral(3), IntLiteral(0), IntLiteral(-2)>>)
    /\ program[2] = Statement(<<IntLiteral(0)>>)
    /\ program[1] # program0[1]
    /\ program[3] # program0[3]

\* C26: several outermost nests are normalised independently: the
\* rewritten form of each equals the result of normalising that nest
\* alone, whatever their order.
C26_NestsIndependent ==
    calls >= 1 =>
        LET before == FindLoopsGreedy(previous)
            after  == FindLoopsGreedy(program)
        IN  /\ Len(after) = Len(before)
            /\ \A k \in 1..Len(before) :
                  <<after[k]>> = normalize_bounds(<<before[k]>>)

C26_Witness ==
    /\ calls = 1
    /\ program0 = TwoNests(<<IntLiteral(2), IntLiteral(3), None>>,
                           <<IntLiteral(0), IntLiteral(3), IntLiteral(2)>>)
    /\ program[1].stop = IntLiteral(2)
    /\ program[3].stop = IntLiteral(2)
    /\ program[1].body # program[3].body

(***************************************************************************)
(* The equation 0 = r.                                                     *)
(***************************************************************************)
\* the row states 0 = r with r # 0
IsZeroEqualsNonZero(row) ==
    /\ \A j \in 1..(Len(row) - 1) : row[j] = 0
    /\ row[Len(row)] # 0

\* C27: row_echelon_form_under_gcd_condition fails with NoIntegerSolution
\* when a row reached at a pivot step has all-zero coefficients and a
\* non-zero right-hand side, as for [[0, 0 | 3]], and for
\* [[1, 2 | 1], [2, 4 | 3]] after the elimination of the first column.
C27_ZeroEqualsNonZeroRaises ==
    ref.state # "idle" =>
        /\ (\E i \in 1..Len(matrix0) : IsZeroEqualsNonZero(matrix0[i]))
              => ref.state = "NoIntegerSolution"
        /\ matrix0 = << <<1, 2, 1>>, <<2, 4, 3>> >>
              => ref.state = "NoIntegerSolution"

(***************************************************************************)
(* The letter case of the additional variables.                            *)
(***************************************************************************)
HasUpperCase(name) == Lower(name) # name

\* C28 as stated: the letter case of the additional variables is not
\* validated, a name of mixed case does not make the call fail.
C28_CaseNotValidated ==
    (affine.state # "idle" /\ \E k \in 1..Len(extras) : HasUpperCase(extras[k]))
        => affine.state # "AssertionError"

\* C28 amended: the letter case is validated by an assertion: the call
\* fails with an AssertionError exactly when one of the additional
\* variables has an upper-case letter, whatever the subscripts are.
C28_CaseAsserted ==
    affine.state # "idle" =>
        (affine.state = "AssertionError"
            <=> \E k \in 1..Len(extras) : HasUpperCase(extras[k]))

C28_Witness ==
    /\ extras = <<"k", "J">>
    /\ dims = <<Var("i")>>
    /\ affine.state = "AssertionError"

(***************************************************************************)
(* The recursion of the row echelon form, call by call: matrix is the      *)
(* argument of the innermost call.                                         *)
(***************************************************************************)
MaxFrames == 6

\* the pivot step of the call raises NoIntegerSolution
PivotRaises(A) ==
    /\ \E i \in 1..Len(A) : A[i][1] # 0
    /\ LET i == FirstNonZeroRow(A)
       IN  gcd_condition(IF i > 1 THEN SwapRows(A, i) ELSE A)

\* a recursive call on the same matrix
RecursiveArgument_Same(A) == A

\* the argument of the recursive call: A[:, 1:] for a zero first column,
\* A[1:, 1:] after the elimination otherwise
RecursiveArgument(A) ==
    IF \A i \in 1..Len(A) : A[i][1] = 0 THEN DropFirstCol(A)
    ELSE LET i  == FirstNonZeroRow(A)
             A1 == IF i > 1 THEN SwapRows(A, i) ELSE A
         IN  DropFirstCol(Tail(Eliminate(DividePivotRow(A1))))

\* matrices of one row, square ones, and taller and wider examples
RecursionShapes == {<<1, 2>>, <<1, 3>>, <<1, 4>>, <<2, 2>>}

RecursionExamples ==
    { << <<0, 2, 1>>, <<0, 0, 2>> >>,
      << <<2, 1, 4>>, <<1, 2, 5>> >>,
      << <<0, 1>>, <<2, 1>>, <<1, 0>> >>,
      << <<1, 2, 0>>, <<0, 0, 0>>, <<2, 1, 1>> >> }

InitRecursion ==
    /\ \/ \E s \in RecursionShapes : matrix0 \in MatricesOf(s)
       \/ matrix0 \in ExampleMatrices \cup RecursionExamples
    /\ matrix = matrix0
    /\ ref = NotCalled
    /\ AffineIdle
    /\ NormIdle
    /\ LinAlgIdle
    /\ IntervalIdle
    /\ nested = NestedNotCalled
    /\ frames = 0

Finished == ref.state \in {"returned", "NoIntegerSolution"}

\* "r == 0 or c == 0: return A": the calls on the stack return one after
\* the other without calling again
ReturnFromBase ==
    /\ ~Finished
    /\ NRows(matrix) = 0 \/ NCols(matrix) = 0
    /\ ref' = [state |-> "returned", out |-> <<>>]
    /\ UNCHANGED <<matrix0, matrix, frames>>

\* the exception leaves every call on the stack
RaiseNoIntegerSolution ==
    /\ ~Finished
    /\ NRows(matrix) > 0 /\ NCols(matrix) > 0
    /\ PivotRaises(matrix)
    /\ ref' = [state |-> "NoIntegerSolution", out |-> <<>>]
    /\ UNCHANGED <<matrix0, matrix, frames>>

\* B = row_echelon_form_under_gcd_condition(A[:, 1:]) or (A[1:, 1:])
CallRecursively ==
    /\ ~Finished
    /\ NRows(matrix) > 0 /\ NCols(matrix) > 0
    /\ ~PivotRaises(matrix)
    /\ frames < MaxFrames
    /\ matrix' = RecursiveArgument(matrix)
    /\ frames' = frames + 1
    /\ UNCHANGED <<matrix0, ref>>

NextRecursion ==
    /\ ReturnFromBase \/ RaiseNoIntegerSolution \/ CallRecursively
    /\ UNCHANGED <<dims, extras, affine, program0, previous, program, calls,
                   right_hand_side, drop_zero_rows, linalg, operands,
                   interval, nested>>

\* a call that is running goes on
SpecRecursion ==
    InitRecursion /\ [][NextRecursion]_vars /\ WF_vars(NextRecursion)

\* C29: row_echelon_form_under_gcd_condition terminates, returning or
\* raising NoIntegerSolution: every recursive call has an argument with
\* fewer columns, so never more recursive calls are on the stack than the
\* matrix has columns.
C29_Terminates ==
    /\ [](frames <= NCols(matrix0))
    /\ [][frames' > frames => NCols(matrix') < NCols(matrix)]_vars
    /\ [](Finished =>
            (ref.state = "NoIntegerSolution")
                = row_echelon_form_under_gcd_condition(matrix0).raised)
    /\ <>Finished

C29_Witness ==
    /\ matrix0 = << <<0, 0, 3>> >>
    /\ ref.state = "returned"
    /\ frames = 3

====
